---- MODULE Spec2Model ----
(***************************************************************************)
(* Key extraction and synchronisation engine of i18next-cli.               *)
(*                                                                         *)
(* Spec      : one call of runExtractor() or extract(): configuration      *)
(*             validation, the findKeys loop over processFile(), the       *)
(*             translation merge, the write loop and the afterSync hooks.  *)
(* SpecOrder : the key collector and the merge as pure functions of the    *)
(*             source files and of the order of the input file list.       *)
(* SpecScope : the scope stack of the one ASTVisitors instance over the    *)
(*             traversals of successive files.                             *)
(* SpecLint  : one call of Linter.run(): lintSetup, and per source file    *)
(*             the lintOnLoad pipeline, parse, the built-in rules and the  *)
(*             lintOnResult pipeline, with or without an 'error' listener. *)
(* SpecInterp: lintInterpolationParams() as a function of one parsed file, *)
(*             the lint configuration and the primary translation file.    *)
(* SpecHard  : findHardcodedStrings() as a function of the lint            *)
(*             configuration and of one leaf of a file with its ancestors. *)
(***************************************************************************)
EXTENDS Integers, Sequences, FiniteSets, TLC

(* ----------------------------- bounds ---------------------------------- *)
NumFiles == 2
NumPlugins == 2
MaxAdds == 1
MaxDepth == 2
MaxThrows == 2
MaxNodes == 3

Files == 1..NumFiles
Plugins == 1..NumPlugins

Keys == {"a", "b"}
DefaultValues == {"X", "Y"}
Locales == <<"en", "de">>
\* extname(file) of the files met, as written in the file name.
Exts == {".TS", ".js", ".tsx", ".mts"}

(* ------------------------- ExtractedKey -------------------------------- *)
\* An addKey() call: a key without an authored default carries the key
\* itself as derived default value.
KeyCalls ==
    {[key |-> k, defaultValue |-> k, explicitDefault |-> FALSE] : k \in Keys}
    \cup {[key |-> k, defaultValue |-> v, explicitDefault |-> TRUE] :
            k \in Keys, v \in DefaultValues}

\* The collector: a map keyed by the key, later wins on metadata merge
\* except that explicitDefault = true always wins over false.
addKey(map, c) ==
    LET old == {e \in map : e.key = c.key}
    IN  IF old = {} THEN map \cup {c}
        ELSE IF (\E e \in old : e.explicitDefault) /\ ~c.explicitDefault
             THEN map
             ELSE (map \ old) \cup {c}

RECURSIVE addKeys(_, _)
addKeys(map, calls) ==
    IF calls = <<>> THEN map
    ELSE addKeys(addKey(map, Head(calls)), Tail(calls))

\* The sequences of addKey() calls one traversal can make.
CallSeqs(n) == UNION {[1..m -> KeyCalls] : m \in 0..n}

(* ----------------------- translation trees ----------------------------- *)
\* A tree is a sequence of <<key, value>> entries in file order.
KeyRank(k) == CASE k = "a" -> 1 [] k = "b" -> 2 [] OTHER -> 3

HasKey(tree, k) == \E i \in 1..Len(tree) : tree[i][1] = k
Lookup(tree, k) == tree[CHOOSE i \in 1..Len(tree) : tree[i][1] = k][2]
TreeKeys(tree) == {tree[i][1] : i \in 1..Len(tree)}

\* Default sort policy: alphabetical by key.
SortedKeys(S) ==
    CHOOSE s \in [1..Cardinality(S) -> S] :
        /\ \A i, j \in 1..Cardinality(S) : i < j => KeyRank(s[i]) < KeyRank(s[j])

\* Serialisation: an opening token, key and value of every entry in tree
\* order, a closing token and one trailing newline.
RECURSIVE Flatten(_)
Flatten(tree) ==
    IF tree = <<>> THEN <<>>
    ELSE <<Head(tree)[1], Head(tree)[2]>> \o Flatten(Tail(tree))

serializeTranslationFile(tree) == <<"{">> \o Flatten(tree) \o <<"}", "\n">>

NoFile == <<>>

\* Loading a translation file: a missing file is the empty tree.
loadTranslationFile(content) ==
    IF content = NoFile THEN <<>>
    ELSE LET body == SubSeq(content, 2, Len(content) - 2)
         IN  [i \in 1..(Len(body) \div 2) |-> <<body[2 * i - 1], body[2 * i]>>]

PathOf(locale) == CASE locale = "en" -> "locales/en/translation.json"
                    [] locale = "de" -> "locales/de/translation.json"
Paths == {PathOf(Locales[i]) : i \in 1..Len(Locales)}
dirname(path) == CASE path = "locales/en/translation.json" -> "locales/en"
                   [] path = "locales/de/translation.json" -> "locales/de"

primaryLanguage == Locales[1]

\* Per-key value of the desired tree.
DesiredValue(locale, e, existing) ==
    IF locale = primaryLanguage
    THEN IF e.explicitDefault THEN e.defaultValue
         ELSE IF HasKey(existing, e.key) THEN Lookup(existing, e.key)
         ELSE e.defaultValue
    ELSE IF HasKey(existing, e.key) THEN Lookup(existing, e.key)
         ELSE ""

\* The desired tree of one locale: the collected keys only (unused keys are
\* removed), sorted.
DesiredTree(locale, keys, existing) ==
    LET ks == SortedKeys({e.key : e \in keys})
    IN  [i \in 1..Len(ks) |->
            <<ks[i], DesiredValue(locale,
                                  CHOOSE e \in keys : e.key = ks[i],
                                  existing)>>]

TranslationResult(locale, keys, dsk) ==
    LET existing == loadTranslationFile(dsk[PathOf(locale)])
        desired == DesiredTree(locale, keys, existing)
    IN  [path |-> PathOf(locale),
         updated |-> serializeTranslationFile(desired)
                        # serializeTranslationFile(existing),
         newTranslations |-> desired,
         existingTranslations |-> existing]

getTranslations(keys, dsk) ==
    [i \in 1..Len(Locales) |-> TranslationResult(Locales[i], keys, dsk)]

\* The translation files found on disk before a run.
InitDisks ==
    { [p \in Paths |-> NoFile],
      [p \in Paths |->
          IF p = PathOf("en")
          THEN serializeTranslationFile(<<<<"b", "b">>, <<"a", "X">>>>)
          ELSE serializeTranslationFile(<<<<"a", "T">>>>)] }

(* ------------------------------ state ---------------------------------- *)
VARIABLES
    entry,               \* "runExtractor" or "extract"
    cfgValid,            \* whether validateExtractorConfig accepts the config
    isDryRun,            \* options.isDryRun
    extractFromComments, \* config.extract.extractFromComments !== false
    pc,                  \* position in runExtractor / extract
    fileList,            \* the input file list, in processing order
    fileIdx,             \* index of the file being processed
    fpc,                 \* position in processFile
    ext,                 \* extension of the current file, once a parse failed
    code,                \* current file's code: the onLoad transforms applied
    pluginIdx,           \* next plugin of the onLoad / afterSync loop
    parseCalls,          \* number of parse() calls for the current file
    warnedPlugins,       \* plugins whose onLoad failure was warned (this file)
    onLoadLog,           \* outcome of every onLoad invocation (this file)
    adds,                \* call sites of the current file met by the traversal
    filesRead,           \* files for which readFile was called
    traversed,           \* files handed to astVisitors.visit
    skipWarned,          \* files for which "Skipping file" was logged
    allKeys,             \* the collected key map
    contributors,        \* files named in the locations of collected keys
    fileErrors,          \* the fileErrors list
    results,             \* the results of getTranslations
    writeIdx,            \* next result of the write loop
    anyFileUpdated,
    disk,                \* path -> file content
    written,             \* paths written by writeFile in this run
    mkdirs,              \* directories created by mkdir in this run
    afterSyncCalls,      \* plugins whose afterSync was reached, in order
    spinner,             \* sequence of spinner.succeed / spinner.fail calls
    retval,              \* value the call resolved with
    sources,             \* SpecOrder: the addKey calls of every source file
    scopes,              \* SpecScope: the scope stack of the ASTVisitors
    seen,                \* SpecScope: what getVarFromScope returned, per file
    hasErrorListener,    \* SpecLint: whether an 'error' listener is registered
    lintExtensions,      \* SpecLint: every plugin's lintExtensions
    setupCalls,          \* SpecLint: the lintSetup invocations, in order
    hookLog,             \* SpecLint: hook invocations and parse (this file)
    issues,              \* SpecLint: the current file's issue list
    totalIssues,         \* SpecLint: totalIssues of Linter.run
    issuesByFile,        \* SpecLint: issuesByFile of Linter.run
    errorEvents,         \* SpecLint: 'error' events the listener received
    parsedFiles,         \* SpecLint: files that were parsed
    skippedFiles,        \* SpecLint: files a lintOnLoad returned null for
    doneEvents,          \* SpecLint: the data of every emit('done', data)
    lastEmitted,         \* SpecLint: name of the event emitted last
    rejection,           \* SpecLint: the error Linter.run rejected with
    ast,                 \* rules: the nodes of the file under lint
    lintCfg,             \* rules: the lint configuration
    callSites,           \* rules: callSites of lintInterpolationParams
    lastSearchIndex,     \* rules: lastSearchIndex of lintInterpolationParams
    ruleIssues           \* rules: the issues a built-in rule returned

vars == <<entry, cfgValid, isDryRun, extractFromComments, pc, fileList,
          fileIdx, fpc, ext, code, pluginIdx, parseCalls, warnedPlugins,
          onLoadLog, adds, filesRead, traversed, skipWarned, allKeys, contributors,
          fileErrors, results, writeIdx, anyFileUpdated, disk, written,
          mkdirs, afterSyncCalls, spinner, retval, sources, scopes, seen,
          hasErrorListener, lintExtensions, setupCalls, hookLog, issues,
          totalIssues, issuesByFile, errorEvents, parsedFiles, skippedFiles,
          doneEvents, lastEmitted, rejection, ast, lintCfg, callSites,
          lastSearchIndex, ruleIssues>>

baseCfg == <<entry, cfgValid, isDryRun, extractFromComments, fileList, sources>>
scopeVars == <<scopes, seen>>
lintVars == <<hasErrorListener, lintExtensions, setupCalls, hookLog, issues,
              totalIssues, issuesByFile, errorEvents, parsedFiles,
              skippedFiles, doneEvents, lastEmitted, rejection>>
ruleVars == <<ast, lintCfg, callSites, lastSearchIndex, ruleIssues>>
cfgVars == <<baseCfg, scopeVars, lintVars, ruleVars>>
fileLocals == <<ext, code, pluginIdx, parseCalls, warnedPlugins, onLoadLog,
                adds>>
outVars == <<results, writeIdx, anyFileUpdated, disk, written, mkdirs,
             afterSyncCalls, spinner, retval>>

NoRet == [kind |-> "none", anyFileUpdated |-> FALSE, hasErrors |-> FALSE]

Identity == [i \in Files |-> i]

\* The scope stack of a new ASTVisitors instance.
ScopeIdle == scopes = <<>> /\ seen = {}

\* lintExtensions is optional: absent, or a list of hints.
Absent == [present |-> FALSE, hints |-> <<>>]

\* A Linter that has not run.
RuleIdle ==
    /\ ast = <<>>
    /\ lintCfg = <<>>
    /\ callSites = <<>>
    /\ lastSearchIndex = 0
    /\ ruleIssues = <<>>

NoError == [prefixes |-> 0, hook |-> "none", plugin |-> 0, file |-> ""]
LintIdle ==
    /\ hasErrorListener = FALSE
    /\ lintExtensions = <<>>
    /\ setupCalls = <<>>
    /\ hookLog = <<>>
    /\ issues = <<>>
    /\ totalIssues = 0
    /\ issuesByFile = [f \in {} |-> <<>>]
    /\ errorEvents = <<>>
    /\ parsedFiles = {}
    /\ skippedFiles = {}
    /\ doneEvents = <<>>
    /\ lastEmitted = "none"
    /\ rejection = NoError

Init ==
    /\ entry \in {"runExtractor", "extract"}
    /\ cfgValid \in BOOLEAN
    /\ isDryRun \in BOOLEAN
    /\ entry = "extract" => ~isDryRun
    /\ extractFromComments \in BOOLEAN
    /\ pc = "start"
    /\ fileList = Identity
    /\ fileIdx = 1
    /\ fpc = "idle"
    /\ ext = ""
    /\ code = <<>>
    /\ pluginIdx = 1
    /\ parseCalls = 0
    /\ warnedPlugins = {}
    /\ onLoadLog = <<>>
    /\ adds = 0
    /\ filesRead = {}
    /\ traversed = {}
    /\ skipWarned = {}
    /\ allKeys = {}
    /\ contributors = {}
    /\ fileErrors = <<>>
    /\ results = <<>>
    /\ writeIdx = 1
    /\ anyFileUpdated = FALSE
    /\ disk \in InitDisks
    /\ written = {}
    /\ mkdirs = {}
    /\ afterSyncCalls = <<>>
    /\ spinner = <<>>
    /\ retval = NoRet
    /\ sources = <<>>
    /\ ScopeIdle
    /\ LintIdle
    /\ RuleIdle

(* --------------------- runExtractor / extract: entry ------------------- *)
\* validateExtractorConfig: throws ExtractorError on an invalid config.
validateExtractorConfig(valid) == IF valid THEN "ok" ELSE "throw"

\* runExtractor up to its first await: defaults, validation, spinner.
RunExtractorStart ==
    /\ pc = "start"
    /\ entry = "runExtractor"
    /\ pc' = IF validateExtractorConfig(cfgValid) = "ok"
             THEN "findKeys" ELSE "rejected"
    /\ UNCHANGED <<cfgVars, fileIdx, fpc, fileLocals, filesRead, traversed,
                   skipWarned, allKeys, contributors, fileErrors, outVars>>

\* extract up to its first await: defaults only.
ExtractStart ==
    /\ pc = "start"
    /\ entry = "extract"
    /\ pc' = "findKeys"
    /\ UNCHANGED <<cfgVars, fileIdx, fpc, fileLocals, filesRead, traversed,
                   skipWarned, allKeys, contributors, fileErrors, outVars>>

(* ----------------------------- processFile ----------------------------- *)
CurFile == fileList[fileIdx]

\* Variant: the file is recorded twice.
CatchPushTwice(errs, file) == Append(Append(errs, file), file)

\* fileErrors?.push(file)
CatchPush(errs, file) == Append(errs, file)

\* Whether findKeys was given a fileErrors list: runExtractor passes one,
\* extract does not.
ListProvided == entry = "runExtractor"

\* Leaving processFile: its locals are gone, findKeys moves to the next file.
Return ==
    /\ fpc' = "idle"
    /\ fileIdx' = fileIdx + 1
    /\ ext' = ""
    /\ code' = <<>>
    /\ pluginIdx' = 1
    /\ parseCalls' = 0
    /\ warnedPlugins' = {}
    /\ onLoadLog' = <<>>
    /\ adds' = 0

\* The catch block of processFile: warn, record the file, return normally.
Catch ==
    /\ skipWarned' = skipWarned \cup {CurFile}
    /\ fileErrors' = IF ListProvided THEN CatchPush(fileErrors, CurFile)
                      ELSE fileErrors
    /\ Return

\* readFile succeeds.
ReadFile ==
    /\ pc = "findKeys"
    /\ fpc = "idle"
    /\ fileIdx <= Len(fileList)
    /\ filesRead' = filesRead \cup {CurFile}
    /\ code' = <<>>
    /\ pluginIdx' = 1
    /\ fpc' = "onLoad"
    /\ UNCHANGED <<cfgVars, pc, fileIdx, ext, parseCalls, warnedPlugins,
                   onLoadLog, adds, traversed, skipWarned, allKeys,
                   contributors, fileErrors, outVars>>

\* readFile rejects.
ReadFileFails ==
    /\ pc = "findKeys"
    /\ fpc = "idle"
    /\ fileIdx <= Len(fileList)
    /\ filesRead' = filesRead \cup {CurFile}
    /\ Catch
    /\ UNCHANGED <<cfgVars, pc, traversed, allKeys, contributors, outVars>>

\* Variant: a failing hook throws the earlier transforms away.
OnLoadCodeReset(c, outcome, p) ==
    IF outcome = "string" THEN Append(c, p)
    ELSE IF outcome = "throw" THEN <<>> ELSE c

\* The code after one onLoad invocation: a returned string replaces the
\* code, undefined (or no hook, or a throw) leaves it as it is.
OnLoadCode(c, outcome, p) ==
    IF outcome = "string" THEN Append(c, p) ELSE c

\* plugin.onLoad?.(code, file) returns a string or undefined (a plugin
\* without the hook evaluates to undefined through the optional call).
OnLoad ==
    /\ pc = "findKeys"
    /\ fpc = "onLoad"
    /\ pluginIdx <= NumPlugins
    /\ \E outcome \in {"undefined", "string"} :
          /\ code' = OnLoadCode(code, outcome, pluginIdx)
          /\ onLoadLog' = Append(onLoadLog, outcome)
    /\ pluginIdx' = pluginIdx + 1
    /\ UNCHANGED <<cfgVars, pc, fileIdx, fpc, ext, parseCalls, warnedPlugins,
                   adds, filesRead, traversed, skipWarned, allKeys,
                   contributors, fileErrors, outVars>>

\* plugin.onLoad throws: the inner catch warns and the loop goes on.
OnLoadThrows ==
    /\ pc = "findKeys"
    /\ fpc = "onLoad"
    /\ pluginIdx <= NumPlugins
    /\ code' = OnLoadCode(code, "throw", pluginIdx)
    /\ onLoadLog' = Append(onLoadLog, "throw")
    /\ warnedPlugins' = warnedPlugins \cup {pluginIdx}
    /\ pluginIdx' = pluginIdx + 1
    /\ UNCHANGED <<cfgVars, pc, fileIdx, fpc, ext, parseCalls, adds,
                   filesRead, traversed, skipWarned, allKeys, contributors,
                   fileErrors, outVars>>

\* fileExt = extname(file).toLowerCase()
lowerExt(e) == IF e = ".TS" THEN ".ts" ELSE e

\* Variant: every extension gets a second attempt.
HasFallbackAlways(e) == TRUE

\* fileExt === '.ts' or fileExt === '.js': whether a failed first parse is
\* retried with markup syntax enabled.
HasFallback(e) == e = ".ts" \/ e = ".js"

\* First parse() call succeeds (whatever the extension); spans are
\* normalised, the visitor is wired to the plugin context and set to the
\* current file.
ParseOk ==
    /\ pc = "findKeys"
    /\ fpc = "onLoad"
    /\ pluginIdx > NumPlugins
    /\ parseCalls' = parseCalls + 1
    /\ fpc' = "visit"
    /\ UNCHANGED <<cfgVars, pc, fileIdx, ext, code, pluginIdx, warnedPlugins,
                   onLoadLog, adds, filesRead, traversed, skipWarned, allKeys,
                   contributors, fileErrors, outVars>>

\* First parse() call fails and the extension has a fallback.
ParseFailsRetry ==
    /\ pc = "findKeys"
    /\ fpc = "onLoad"
    /\ pluginIdx > NumPlugins
    /\ \E e \in Exts : HasFallback(lowerExt(e)) /\ ext' = e
    /\ parseCalls' = parseCalls + 1
    /\ fpc' = "retry"
    /\ UNCHANGED <<cfgVars, pc, fileIdx, code, pluginIdx, warnedPlugins,
                   onLoadLog, adds, filesRead, traversed, skipWarned, allKeys,
                   contributors, fileErrors, outVars>>

\* First parse() call fails and there is no fallback: ExtractorError.
ParseFailsSkip ==
    /\ pc = "findKeys"
    /\ fpc = "onLoad"
    /\ pluginIdx > NumPlugins
    /\ \E e \in Exts : ~HasFallback(lowerExt(e))
    /\ Catch
    /\ UNCHANGED <<cfgVars, pc, filesRead, traversed, allKeys, contributors,
                   outVars>>

\* The fallback parse() call succeeds.
RetryOk ==
    /\ pc = "findKeys"
    /\ fpc = "retry"
    /\ HasFallback(lowerExt(ext))
    /\ parseCalls' = parseCalls + 1
    /\ fpc' = "visit"
    /\ UNCHANGED <<cfgVars, pc, fileIdx, ext, code, pluginIdx, warnedPlugins,
                   onLoadLog, adds, filesRead, traversed, skipWarned, allKeys,
                   contributors, fileErrors, outVars>>

\* The fallback parse() call fails: ExtractorError.
RetryFails ==
    /\ pc = "findKeys"
    /\ fpc = "retry"
    /\ Catch
    /\ UNCHANGED <<cfgVars, pc, filesRead, traversed, allKeys, contributors,
                   outVars>>

\* The files named in the locations of the collected keys.
Located(who, file, calls) == IF calls = <<>> THEN who ELSE who \cup {file}

\* astVisitors.visit(ast) meets a call site and forwards it to the
\* collector (the traversal is synchronous: nothing else runs in between).
VisitCall ==
    /\ pc = "findKeys"
    /\ fpc = "visit"
    /\ adds < MaxAdds
    /\ adds' = adds + 1
    /\ traversed' = traversed \cup {CurFile}
    /\ \E c \in KeyCalls :
          /\ allKeys' = addKey(allKeys, c)
          /\ contributors' = Located(contributors, CurFile, <<c>>)
    /\ UNCHANGED <<cfgVars, pc, fileIdx, fpc, ext, code, pluginIdx,
                   parseCalls, warnedPlugins, onLoadLog, filesRead,
                   skipWarned, fileErrors, outVars>>

\* Variant: the comment scan runs whatever the option says.
RunsCommentScanAlways(flag) == TRUE

\* if (config.extract.extractFromComments !== false)
RunsCommentScan(flag) == flag

\* astVisitors.visit(ast) runs to completion.
Visit ==
    /\ pc = "findKeys"
    /\ fpc = "visit"
    /\ traversed' = traversed \cup {CurFile}
    /\ IF RunsCommentScan(extractFromComments)
       THEN /\ fpc' = "comments"
            /\ UNCHANGED <<fileIdx, fileLocals>>
       ELSE Return
    /\ UNCHANGED <<cfgVars, pc, filesRead, skipWarned, allKeys, contributors,
                   fileErrors, outVars>>

\* astVisitors.visit(ast) throws part-way (or span normalisation throws
\* before it): the keys forwarded so far stay in the collector.
VisitThrows ==
    /\ pc = "findKeys"
    /\ fpc = "visit"
    /\ traversed' = traversed \cup {CurFile}
    /\ Catch
    /\ UNCHANGED <<cfgVars, pc, filesRead, allKeys, contributors, outVars>>

\* extractKeysFromComments returns.
Comments ==
    /\ pc = "findKeys"
    /\ fpc = "comments"
    /\ \E calls \in CallSeqs(1) :
          /\ allKeys' = addKeys(allKeys, calls)
          /\ contributors' = Located(contributors, CurFile, calls)
    /\ Return
    /\ UNCHANGED <<cfgVars, pc, filesRead, traversed, skipWarned, fileErrors,
                   outVars>>

\* extractKeysFromComments throws.
CommentsThrow ==
    /\ pc = "findKeys"
    /\ fpc = "comments"
    /\ Catch
    /\ UNCHANGED <<cfgVars, pc, filesRead, traversed, allKeys, contributors,
                   outVars>>

(* ------------------- runExtractor / extract: the rest ------------------ *)
fileVars == <<fileIdx, fpc, fileLocals, filesRead, traversed, skipWarned,
              allKeys, contributors, fileErrors>>

\* findKeys resolves once every file of the list went through processFile.
FindKeysDone ==
    /\ pc = "findKeys"
    /\ fpc = "idle"
    /\ fileIdx > Len(fileList)
    /\ pc' = "translate"
    /\ UNCHANGED <<cfgVars, fileVars, outVars>>

ExtractRet(rs) == [kind |-> "results", anyFileUpdated |-> FALSE,
                   hasErrors |-> FALSE]

\* await getTranslations(allKeys, objectKeys, config, ...); extract returns
\* the results as they are.
GetTranslations ==
    /\ pc = "translate"
    /\ results' = getTranslations(allKeys, disk)
    /\ writeIdx' = 1
    /\ anyFileUpdated' = FALSE
    /\ IF entry = "extract"
       THEN /\ pc' = "resolved"
            /\ retval' = ExtractRet(results')
       ELSE /\ pc' = "write"
            /\ UNCHANGED retval
    /\ UNCHANGED <<cfgVars, fileVars, disk, written, mkdirs, afterSyncCalls,
                   spinner>>

\* Variant: the dry-run flag is not consulted.
ShouldWriteIgnoringDryRun(r, dry) == r.updated

\* Variant: every result is written outside dry-run.
ShouldWriteAlways(r, dry) == ~dry

\* if (result.updated) { ...; if (!options.isDryRun) { ... writeFile } }
ShouldWrite(r, dry) == r.updated /\ ~dry

\* Variant: the existing tree is written back.
FileContentExisting(r) == serializeTranslationFile(r.existingTranslations)

\* The content handed to writeFile.
FileContent(r) == serializeTranslationFile(r.newTranslations)

\* One iteration of the write loop that writes the file.
WriteResult ==
    /\ pc = "write"
    /\ writeIdx <= Len(results)
    /\ ShouldWrite(results[writeIdx], isDryRun)
    /\ anyFileUpdated' = (anyFileUpdated \/ results[writeIdx].updated)
    /\ mkdirs' = mkdirs \cup {dirname(results[writeIdx].path)}
    /\ disk' = [disk EXCEPT ![results[writeIdx].path] =
                                FileContent(results[writeIdx])]
    /\ written' = written \cup {results[writeIdx].path}
    /\ writeIdx' = writeIdx + 1
    /\ UNCHANGED <<cfgVars, pc, fileVars, results, afterSyncCalls, spinner,
                   retval>>

\* One iteration of the write loop that writes nothing.
SkipResult ==
    /\ pc = "write"
    /\ writeIdx <= Len(results)
    /\ ~ShouldWrite(results[writeIdx], isDryRun)
    /\ anyFileUpdated' = (anyFileUpdated \/ results[writeIdx].updated)
    /\ writeIdx' = writeIdx + 1
    /\ UNCHANGED <<cfgVars, pc, fileVars, results, disk, written, mkdirs,
                   afterSyncCalls, spinner, retval>>

\* The write loop is over.
WriteDone ==
    /\ pc = "write"
    /\ writeIdx > Len(results)
    /\ pc' = "afterSync"
    /\ pluginIdx' = 1
    /\ UNCHANGED <<cfgVars, fileIdx, fpc, ext, code, parseCalls,
                   warnedPlugins, onLoadLog, adds, filesRead, traversed,
                   skipWarned, allKeys, contributors, fileErrors, outVars>>

\* await plugin.afterSync?.(results, config) returns (or there is no hook).
AfterSync ==
    /\ pc = "afterSync"
    /\ pluginIdx <= NumPlugins
    /\ afterSyncCalls' = Append(afterSyncCalls, pluginIdx)
    /\ pluginIdx' = pluginIdx + 1
    /\ UNCHANGED <<cfgVars, pc, fileIdx, fpc, ext, code, parseCalls,
                   warnedPlugins, onLoadLog, adds, filesRead, traversed,
                   skipWarned, allKeys, contributors, fileErrors, results,
                   writeIdx, anyFileUpdated, disk, written, mkdirs, spinner,
                   retval>>

\* Variant: the catch rethrows without a word.
SpinnerFailSilent(sp) == sp

\* spinner.fail(...) in the catch of runExtractor
SpinnerFail(sp) == Append(sp, "fail")

\* plugin.afterSync throws: the outer catch calls spinner.fail and rethrows.
AfterSyncThrows ==
    /\ pc = "afterSync"
    /\ pluginIdx <= NumPlugins
    /\ afterSyncCalls' = Append(afterSyncCalls, pluginIdx)
    /\ spinner' = SpinnerFail(spinner)
    /\ pc' = "rejected"
    /\ UNCHANGED <<cfgVars, fileVars, results, writeIdx, anyFileUpdated, disk,
                   written, mkdirs, retval>>

\* Variant: a single skipped file is not reported.
hasErrorsOffByOne(errs) == Len(errs) > 1

\* hasErrors: fileErrors.length > 0
hasErrors(errs) == Len(errs) > 0

RunRet(any, errs) == [kind |-> "run", anyFileUpdated |-> any,
                      hasErrors |-> hasErrors(errs)]

\* spinner.succeed(...); without an updated file the call returns at once.
Succeed ==
    /\ pc = "afterSync"
    /\ pluginIdx > NumPlugins
    /\ spinner' = Append(spinner, "succeed")
    /\ IF anyFileUpdated
       THEN /\ pc' = "funnel"
            /\ UNCHANGED retval
       ELSE /\ pc' = "resolved"
            /\ retval' = RunRet(anyFileUpdated, fileErrors)
    /\ UNCHANGED <<cfgVars, fileVars, results, writeIdx, anyFileUpdated, disk,
                   written, mkdirs, afterSyncCalls>>

\* await printLocizeFunnel(...) returns, then the call returns.
Funnel ==
    /\ pc = "funnel"
    /\ pc' = "resolved"
    /\ retval' = RunRet(anyFileUpdated, fileErrors)
    /\ UNCHANGED <<cfgVars, fileVars, results, writeIdx, anyFileUpdated, disk,
                   written, mkdirs, afterSyncCalls, spinner>>

Next ==
    \/ RunExtractorStart
    \/ ExtractStart
    \/ ReadFile
    \/ ReadFileFails
    \/ OnLoad
    \/ OnLoadThrows
    \/ ParseOk
    \/ ParseFailsRetry
    \/ ParseFailsSkip
    \/ RetryOk
    \/ RetryFails
    \/ VisitCall
    \/ Visit
    \/ VisitThrows
    \/ Comments
    \/ CommentsThrow
    \/ FindKeysDone
    \/ GetTranslations
    \/ WriteResult
    \/ SkipResult
    \/ WriteDone
    \/ AfterSync
    \/ AfterSyncThrows
    \/ Succeed
    \/ Funnel

Spec == Init /\ [][Next]_vars

(* ------------- SpecOrder: collection and merge by file order ----------- *)
\* findKeys over files that all process successfully: the calls of every
\* file reach the collector in the order of the file list.
RECURSIVE CollectAll(_, _, _)
CollectAll(map, order, src) ==
    IF order = <<>> THEN map
    ELSE CollectAll(addKeys(map, src[Head(order)]), Tail(order), src)

InitOrder ==
    /\ entry = "runExtractor"
    /\ cfgValid = TRUE
    /\ isDryRun = FALSE
    /\ extractFromComments = TRUE
    /\ pc = "collect"
    /\ fileList \in Permutations(Files)
    /\ fileIdx = 1
    /\ fpc = "idle"
    /\ ext = ""
    /\ code = <<>>
    /\ pluginIdx = 1
    /\ parseCalls = 0
    /\ warnedPlugins = {}
    /\ onLoadLog = <<>>
    /\ adds = 0
    /\ filesRead = {}
    /\ traversed = {}
    /\ skipWarned = {}
    /\ allKeys = {}
    /\ contributors = {}
    /\ fileErrors = <<>>
    /\ results = <<>>
    /\ writeIdx = 1
    /\ anyFileUpdated = FALSE
    /\ disk \in InitDisks
    /\ written = {}
    /\ mkdirs = {}
    /\ afterSyncCalls = <<>>
    /\ spinner = <<>>
    /\ retval = NoRet
    /\ sources \in [Files -> CallSeqs(1)]
    /\ ScopeIdle
    /\ LintIdle
    /\ RuleIdle

\* processFile of the next file of the list, without failure.
CollectFile ==
    /\ pc = "collect"
    /\ fileIdx <= Len(fileList)
    /\ allKeys' = addKeys(allKeys, sources[CurFile])
    /\ contributors' = Located(contributors, CurFile, sources[CurFile])
    /\ filesRead' = filesRead \cup {CurFile}
    /\ traversed' = traversed \cup {CurFile}
    /\ fileIdx' = fileIdx + 1
    /\ UNCHANGED <<cfgVars, pc, fpc, fileLocals, skipWarned, fileErrors,
                   outVars>>

\* getTranslations over the collected keys.
MergeTrees ==
    /\ pc = "collect"
    /\ fileIdx > Len(fileList)
    /\ results' = getTranslations(allKeys, disk)
    /\ pc' = "merged"
    /\ UNCHANGED <<cfgVars, fileVars, writeIdx, anyFileUpdated, disk, written,
                   mkdirs, afterSyncCalls, spinner, retval>>

NextOrder ==
    \/ CollectFile
    \/ MergeTrees

SpecOrder == InitOrder /\ [][NextOrder]_vars

(* ---------------- SpecScope: the scope stack across files -------------- *)
\* Names of translator variables a file binds.
VarNames == {"t", "i18n"}

\* "No scope info": what getVarFromScope returns for an unbound name.
NoInfo == 0

\* A frame binds names to ScopeInfo; the info is identified by the file
\* whose traversal registered it.
EmptyFrame == [n \in VarNames |-> NoInfo]

\* Variant: visit does not clear the stack.
resetKeeps(stack) == stack

\* ScopeManager.reset(): the stack is emptied.
reset(stack) == <<>>

enterScope(stack) == Append(stack, EmptyFrame)
exitScope(stack) == SubSeq(stack, 1, Len(stack) - 1)

\* setVarInScope: binds in the innermost frame.
setVarInScope(stack, name, info) ==
    [stack EXCEPT ![Len(stack)] = [@ EXCEPT ![name] = info]]

\* getVarFromScope: innermost frame first, then outwards.
RECURSIVE getVarFromScope(_, _)
getVarFromScope(stack, name) ==
    IF stack = <<>> THEN NoInfo
    ELSE IF stack[Len(stack)][name] # NoInfo THEN stack[Len(stack)][name]
    ELSE getVarFromScope(exitScope(stack), name)

\* The ASTVisitors instance is created once and handed to every
\* processFile call; the files were read and parsed without failure.
InitScope ==
    /\ entry = "runExtractor"
    /\ cfgValid = TRUE
    /\ isDryRun = FALSE
    /\ extractFromComments = FALSE
    /\ pc = "findKeys"
    /\ fileList = Identity
    /\ fileIdx = 1
    /\ fpc = "parsed"
    /\ ext = ""
    /\ code = <<>>
    /\ pluginIdx = 1
    /\ parseCalls = 0
    /\ warnedPlugins = {}
    /\ onLoadLog = <<>>
    /\ adds = 0
    /\ filesRead = {}
    /\ traversed = {}
    /\ skipWarned = {}
    /\ allKeys = {}
    /\ contributors = {}
    /\ fileErrors = <<>>
    /\ results = <<>>
    /\ writeIdx = 1
    /\ anyFileUpdated = FALSE
    /\ disk = [p \in Paths |-> NoFile]
    /\ written = {}
    /\ mkdirs = {}
    /\ afterSyncCalls = <<>>
    /\ spinner = <<>>
    /\ retval = NoRet
    /\ sources = <<>>
    /\ ScopeIdle
    /\ LintIdle
    /\ RuleIdle

scopeRest == <<baseCfg, lintVars, ruleVars, pc, fileLocals, filesRead,
               skipWarned, allKeys, contributors, outVars>>

\* astVisitors.visit(ast) begins: the stack is reset and the module scope
\* is entered.
VisitStart ==
    /\ fpc = "parsed"
    /\ fileIdx <= NumFiles
    /\ scopes' = enterScope(reset(scopes))
    /\ fpc' = "visit"
    /\ UNCHANGED <<scopeRest, fileIdx, traversed, fileErrors, seen>>

\* The walk enters a function or block.
EnterScope ==
    /\ fpc = "visit"
    /\ Len(scopes) < MaxDepth
    /\ scopes' = enterScope(scopes)
    /\ UNCHANGED <<scopeRest, fileIdx, fpc, traversed, fileErrors, seen>>

\* The walk leaves a function or block.
ExitScope ==
    /\ fpc = "visit"
    /\ Len(scopes) > 1
    /\ scopes' = exitScope(scopes)
    /\ UNCHANGED <<scopeRest, fileIdx, fpc, traversed, fileErrors, seen>>

\* A declaration (or a plugin, through pluginContext.setVarInScope) binds
\* a name in the innermost frame.
SetVar ==
    /\ fpc = "visit"
    /\ \E n \in VarNames : scopes' = setVarInScope(scopes, n, CurFile)
    /\ UNCHANGED <<scopeRest, fileIdx, fpc, traversed, fileErrors, seen>>

\* A call site (or a plugin, through pluginContext.getVarFromScope) looks
\* a name up.
GetVar ==
    /\ fpc = "visit"
    /\ \E n \in VarNames :
          seen' = seen \cup {<<CurFile, getVarFromScope(scopes, n)>>}
    /\ UNCHANGED <<scopeRest, fileIdx, fpc, traversed, fileErrors, scopes>>

\* The walk is over: the module scope is left, processFile returns.
VisitEnd ==
    /\ fpc = "visit"
    /\ Len(scopes) = 1
    /\ scopes' = exitScope(scopes)
    /\ traversed' = traversed \cup {CurFile}
    /\ fpc' = "parsed"
    /\ fileIdx' = fileIdx + 1
    /\ UNCHANGED <<scopeRest, fileErrors, seen>>

\* The walk throws partway: no scope is left; processFile's catch records
\* the file and returns.
VisitFails ==
    /\ fpc = "visit"
    /\ fileErrors' = CatchPush(fileErrors, CurFile)
    /\ fpc' = "parsed"
    /\ fileIdx' = fileIdx + 1
    /\ UNCHANGED <<scopeRest, traversed, scopes, seen>>

NextScope ==
    \/ VisitStart
    \/ EnterScope
    \/ ExitScope
    \/ SetVar
    \/ GetVar
    \/ VisitEnd
    \/ VisitFails

SpecScope == InitScope /\ [][NextScope]_vars

(* ------------------------ SpecLint: Linter.run ------------------------- *)
\* Strings the extension gate works on are sequences of characters.
DotTs == <<".", "t", "s">>
DotTsx == <<".", "t", "s", "x">>
NoExt == <<>>
Blank == <<" ">>
HintTs == <<"T", "S", " ">>

\* config.plugins, by name, and the source files glob finds.
LintPlugins == <<"first", "second">>
LintFiles == <<"App.ts", "Makefile">>
LintFile == LintFiles[fileIdx]

\* path.extname
extname(file) == IF file = "App.ts" THEN DotTs ELSE NoExt

\* The lintExtensions a plugin may declare.
LintExtChoices ==
    {Absent,
     [present |-> TRUE, hints |-> <<Blank>>],
     [present |-> TRUE, hints |-> <<HintTs>>],
     [present |-> TRUE, hints |-> <<Blank, DotTsx>>]}

toLowerCase(str) ==
    [i \in 1..Len(str) |->
        CASE str[i] = "T" -> "t"
          [] str[i] = "S" -> "s"
          [] str[i] = "X" -> "x"
          [] OTHER -> str[i]]

RECURSIVE trimStart(_)
trimStart(str) ==
    IF str # <<>> /\ Head(str) = " " THEN trimStart(Tail(str)) ELSE str

RECURSIVE trimEnd(_)
trimEnd(str) ==
    IF str # <<>> /\ str[Len(str)] = " "
    THEN trimEnd(SubSeq(str, 1, Len(str) - 1)) ELSE str

trim(str) == trimEnd(trimStart(str))

\* Variant: the hint is compared as written.
normalizeExtensionRaw(e) == e

\* Linter.normalizeExtension
normalizeExtension(e) ==
    LET trimmed == toLowerCase(trim(e))
    IN  IF trimmed = <<>> THEN <<>>
        ELSE IF Head(trimmed) = "." THEN trimmed
        ELSE <<".">> \o trimmed

NotEmpty(str) == str # <<>>

\* Linter.shouldRunLintPluginForFile, on the plugin's lintExtensions and
\* extname(filePath).
shouldRunLintPluginForFile(le, e) ==
    IF ~le.present \/ Len(le.hints) = 0 THEN TRUE
    ELSE LET fileExt == normalizeExtension(e)
         IN  IF fileExt = <<>> THEN FALSE
             ELSE LET normalizedHints ==
                          SelectSeq([i \in 1..Len(le.hints) |->
                                        normalizeExtension(le.hints[i])],
                                    NotEmpty)
                  IN  IF Len(normalizedHints) = 0 THEN TRUE
                      ELSE \E i \in 1..Len(normalizedHints) :
                              normalizedHints[i] = fileExt

\* new Linter(config, logger)
Linter(config, logger) == [config |-> config, logger |-> logger]
TheLinter == Linter("config", "logger")

\* Variant: the context carries a logger of its own.
createLintPluginContextOwnLogger(this) ==
    [config |-> this.config, logger |-> "ConsoleLogger"]

\* Linter.createLintPluginContext
createLintPluginContext(this) ==
    [config |-> this.config, logger |-> this.logger]

\* What a hook throws, and Linter.wrapError: the prefix is added once.
HookError(hook, p, f) ==
    [prefixes |-> 0, hook |-> hook, plugin |-> p, file |-> f]

\* Variant: the prefix is put in front whatever the message starts with.
wrapErrorAgain(e) == [e EXCEPT !.prefixes = @ + 1]

wrapError(e) == IF e.prefixes > 0 THEN e ELSE [e EXCEPT !.prefixes = 1]

\* EventEmitter.emit('error', e): delivered to the listener when there is
\* one; without a listener emit throws e.
EmitDelivers == hasErrorListener

\* The issues findHardcodedStrings and lintInterpolationParams report.
BuiltinIssues == {<<>>, <<"hardcoded">>}

NoIssues == [f \in {} |-> <<>>]

\* new Linter(config, logger) before run(); the extractor is not running.
InitLint ==
    /\ entry = "runLinter"
    /\ cfgValid = TRUE
    /\ isDryRun = FALSE
    /\ extractFromComments = FALSE
    /\ pc = "lintStart"
    /\ fileList = Identity
    /\ fileIdx = 1
    /\ fpc = "idle"
    /\ ext = NoExt
    /\ code = <<>>
    /\ pluginIdx = 1
    /\ parseCalls = 0
    /\ warnedPlugins = {}
    /\ onLoadLog = <<>>
    /\ adds = 0
    /\ filesRead = {}
    /\ traversed = {}
    /\ skipWarned = {}
    /\ allKeys = {}
    /\ contributors = {}
    /\ fileErrors = <<>>
    /\ results = <<>>
    /\ writeIdx = 1
    /\ anyFileUpdated = FALSE
    /\ disk = [p \in Paths |-> NoFile]
    /\ written = {}
    /\ mkdirs = {}
    /\ afterSyncCalls = <<>>
    /\ spinner = <<>>
    /\ retval = NoRet
    /\ sources = <<>>
    /\ ScopeIdle
    /\ hasErrorListener \in BOOLEAN
    /\ lintExtensions \in [DOMAIN LintPlugins -> LintExtChoices]
    /\ setupCalls = <<>>
    /\ hookLog = <<>>
    /\ issues = <<>>
    /\ totalIssues = 0
    /\ issuesByFile = NoIssues
    /\ errorEvents = <<>>
    /\ parsedFiles = {}
    /\ skippedFiles = {}
    /\ doneEvents = <<>>
    /\ lastEmitted = "none"
    /\ rejection = NoError
    /\ RuleIdle

\* What Linter.run never touches.
lintRest == <<entry, cfgValid, isDryRun, extractFromComments, fileList,
              sources, scopeVars, ruleVars, fpc, warnedPlugins, onLoadLog, adds,
              traversed, skipWarned, allKeys, contributors, fileErrors,
              results, writeIdx, anyFileUpdated, disk, written, mkdirs,
              afterSyncCalls, spinner, hasErrorListener, lintExtensions>>

\* What the hook pipelines of one file leave alone.
lintTotals == <<totalIssues, issuesByFile, parsedFiles, skippedFiles,
                filesRead, setupCalls, retval, doneEvents>>

\* What an action that emits no event leaves alone.
emitVars == <<errorEvents, lastEmitted, rejection>>

\* A throw that reaches the catch of run: the error is wrapped and emitted
\* (delivered, or thrown by emit itself) and run rejects.
RunRejects(e) ==
    /\ errorEvents' = IF EmitDelivers THEN Append(errorEvents, wrapError(e))
                      ELSE errorEvents
    /\ lastEmitted' = "error"
    /\ rejection' = wrapError(e)
    /\ pc' = "lintRejected"

\* A hook threw inside its own try/catch: the wrapped error is emitted. With
\* a listener the loop goes on with the next plugin; without one emit throws
\* the wrapped error out of the loop and into the catch of run.
HookThrew(e) ==
    IF EmitDelivers
    THEN /\ errorEvents' = Append(errorEvents, wrapError(e))
         /\ lastEmitted' = "error"
         /\ rejection' = rejection
         /\ pluginIdx' = pluginIdx + 1
         /\ pc' = pc
    ELSE /\ RunRejects(wrapError(e))
         /\ pluginIdx' = pluginIdx

\* glob and loadPrimaryTranslationValues resolve.
LintStart ==
    /\ pc = "lintStart"
    /\ pc' = "lintSetup"
    /\ pluginIdx' = 1
    /\ lastEmitted' = "progress"
    /\ UNCHANGED <<lintRest, lintTotals, fileIdx, ext, code, parseCalls,
                   hookLog, issues, errorEvents, rejection>>

\* glob or loadPrimaryTranslationValues rejects.
LintStartFails ==
    /\ pc = "lintStart"
    /\ RunRejects(HookError("glob", 0, ""))
    /\ UNCHANGED <<lintRest, lintTotals, fileIdx, ext, code, parseCalls,
                   pluginIdx, hookLog, issues>>

\* initializeLintPlugins: plugin.lintSetup?.(context) returns or throws.
LintSetup ==
    /\ pc = "lintSetup"
    /\ pluginIdx <= Len(LintPlugins)
    /\ \E outcome \in {"ok", "throw"} :
        /\ setupCalls' =
              Append(setupCalls,
                     [plugin |-> pluginIdx, outcome |-> outcome,
                      context |-> createLintPluginContext(TheLinter)])
        /\ IF outcome = "ok"
           THEN /\ pluginIdx' = pluginIdx + 1
                /\ UNCHANGED <<pc, emitVars>>
           ELSE /\ Len(errorEvents) < MaxThrows
                /\ HookThrew(HookError("lintSetup", pluginIdx, ""))
    /\ UNCHANGED <<lintRest, fileIdx, ext, code, parseCalls, hookLog, issues,
                   totalIssues, issuesByFile, parsedFiles, skippedFiles,
                   filesRead, retval, doneEvents>>

\* initializeLintPlugins returns; the file loop begins.
LintSetupDone ==
    /\ pc = "lintSetup"
    /\ pluginIdx > Len(LintPlugins)
    /\ pc' = "lintRead"
    /\ fileIdx' = 1
    /\ UNCHANGED <<lintRest, lintTotals, ext, code, parseCalls, pluginIdx,
                   hookLog, issues, emitVars>>

\* readFile(file) resolves; the lintOnLoad pipeline starts on its content.
LintRead ==
    /\ pc = "lintRead"
    /\ fileIdx <= Len(LintFiles)
    /\ ext' = extname(LintFile)
    /\ filesRead' = filesRead \cup {LintFile}
    /\ code' = <<>>
    /\ hookLog' = <<>>
    /\ issues' = <<>>
    /\ parseCalls' = 0
    /\ pluginIdx' = 1
    /\ pc' = "lintOnLoad"
    /\ UNCHANGED <<lintRest, fileIdx, totalIssues, issuesByFile, parsedFiles,
                   skippedFiles, setupCalls, retval, doneEvents, emitVars>>

\* readFile(file) rejects: the catch of run.
LintReadFails ==
    /\ pc = "lintRead"
    /\ fileIdx <= Len(LintFiles)
    /\ filesRead' = filesRead \cup {LintFile}
    /\ RunRejects(HookError("readFile", 0, LintFile))
    /\ UNCHANGED <<lintRest, fileIdx, ext, code, parseCalls, pluginIdx,
                   hookLog, issues, totalIssues, issuesByFile, parsedFiles,
                   skippedFiles, setupCalls, retval, doneEvents>>

\* One entry of hookLog.
Invocation(hook, p, file, input, outcome, result) ==
    [hook |-> hook, plugin |-> p, file |-> file, input |-> input,
     outcome |-> outcome, result |-> result]

\* The string a lintOnLoad hook returns for the code it was given.
Transformed(c, p) == Append(c, p)

\* Variant: a returned string is dropped.
PipeCodeDrops(c, outcome, result) == c

\* if (typeof result === 'string') code = result
PipeCode(c, outcome, result) == IF outcome = "string" THEN result ELSE c

\* Variant: null is treated like undefined.
SkipsFileNever(outcome) == FALSE

\* if (result === null) return null, and in run: if (lintPrepared === null)
SkipsFile(outcome) == outcome = "null"

\* if (!this.shouldRunLintPluginForFile(plugin, filePath)) continue
LintOnLoadSkip ==
    /\ pc = "lintOnLoad"
    /\ pluginIdx <= Len(LintPlugins)
    /\ ~shouldRunLintPluginForFile(lintExtensions[pluginIdx], ext)
    /\ pluginIdx' = pluginIdx + 1
    /\ UNCHANGED <<lintRest, lintTotals, pc, fileIdx, ext, code, parseCalls,
                   hookLog, issues, emitVars>>

\* plugin.lintOnLoad?.(code, filePath) returns undefined, a string or null,
\* or throws.
LintOnLoad ==
    /\ pc = "lintOnLoad"
    /\ pluginIdx <= Len(LintPlugins)
    /\ shouldRunLintPluginForFile(lintExtensions[pluginIdx], ext)
    /\ \E outcome \in {"undefined", "string", "null", "throw"} :
        LET result == IF outcome = "string"
                      THEN Transformed(code, pluginIdx) ELSE <<>>
        IN
        /\ hookLog' = Append(hookLog, Invocation("lintOnLoad", pluginIdx,
                                     LintFile, code, outcome, result))
        /\ code' = PipeCode(code, outcome, result)
        /\ CASE SkipsFile(outcome) ->
                  /\ skippedFiles' = skippedFiles \cup {LintFile}
                  /\ fileIdx' = fileIdx + 1
                  /\ pc' = "lintRead"
                  /\ lastEmitted' = "progress"
                  /\ UNCHANGED <<pluginIdx, errorEvents, rejection>>
             [] outcome = "throw" ->
                  /\ Len(errorEvents) < MaxThrows
                  /\ HookThrew(HookError("lintOnLoad", pluginIdx, LintFile))
                  /\ UNCHANGED <<skippedFiles, fileIdx>>
             [] OTHER ->
                  /\ pluginIdx' = pluginIdx + 1
                  /\ UNCHANGED <<skippedFiles, fileIdx, pc, emitVars>>
    /\ UNCHANGED <<lintRest, ext, parseCalls, issues, totalIssues,
                   issuesByFile, parsedFiles, filesRead, setupCalls, retval,
                   doneEvents>>

\* runLintOnLoadPipeline returns the code; lintPrepared is not null.
LintOnLoadDone ==
    /\ pc = "lintOnLoad"
    /\ pluginIdx > Len(LintPlugins)
    /\ pc' = "lintParse"
    /\ UNCHANGED <<lintRest, lintTotals, fileIdx, ext, code, parseCalls,
                   pluginIdx, hookLog, issues, emitVars>>

\* fileExt === '.ts' or fileExt === '.js', on extname(file).toLowerCase().
LintHasFallback(e) ==
    toLowerCase(e) = DotTs \/ toLowerCase(e) = <<".", "j", "s">>

\* parse resolves (the first call, or the TSX/JSX retry); the built-in
\* rules report their issues and the lintOnResult pipeline starts.
LintParseOk ==
    /\ pc \in {"lintParse", "lintRetry"}
    /\ \E found \in BuiltinIssues :
        /\ issues' = found
        /\ hookLog' = Append(hookLog,
                             Invocation("parse", 0, LintFile, code, "ok",
                                        found))
    /\ parseCalls' = parseCalls + 1
    /\ parsedFiles' = parsedFiles \cup {LintFile}
    /\ pluginIdx' = 1
    /\ pc' = "lintOnResult"
    /\ lastEmitted' = IF pc = "lintRetry" THEN "progress" ELSE lastEmitted
    /\ UNCHANGED <<lintRest, fileIdx, ext, code, totalIssues, issuesByFile,
                   skippedFiles, filesRead, setupCalls, retval, doneEvents,
                   errorEvents, rejection>>

\* The first parse rejects and the extension has a retry.
LintParseRetry ==
    /\ pc = "lintParse"
    /\ LintHasFallback(ext)
    /\ parseCalls' = parseCalls + 1
    /\ pc' = "lintRetry"
    /\ UNCHANGED <<lintRest, lintTotals, fileIdx, ext, code, pluginIdx,
                   hookLog, issues, emitVars>>

\* parse rejects for good: the wrapped error is emitted and, with a
\* listener, the loop continues with the next file.
LintParseFails ==
    /\ \/ pc = "lintParse" /\ ~LintHasFallback(ext)
       \/ pc = "lintRetry"
    /\ Len(errorEvents) < MaxThrows
    /\ parseCalls' = parseCalls + 1
    /\ hookLog' = Append(hookLog,
                         Invocation("parse", 0, LintFile, code, "throw",
                                    <<>>))
    /\ IF EmitDelivers
       THEN /\ errorEvents' = Append(errorEvents,
                                wrapError(HookError("parse", 0, LintFile)))
            /\ lastEmitted' = "error"
            /\ rejection' = rejection
            /\ fileIdx' = fileIdx + 1
            /\ pc' = "lintRead"
       ELSE /\ RunRejects(wrapError(HookError("parse", 0, LintFile)))
            /\ fileIdx' = fileIdx
    /\ UNCHANGED <<lintRest, lintTotals, ext, code, pluginIdx, issues>>

\* if (Array.isArray(result)) issues = result
PipeIssues(list, outcome, result) ==
    IF outcome = "array" THEN result ELSE list

LintOnResultSkip ==
    /\ pc = "lintOnResult"
    /\ pluginIdx <= Len(LintPlugins)
    /\ ~shouldRunLintPluginForFile(lintExtensions[pluginIdx], ext)
    /\ pluginIdx' = pluginIdx + 1
    /\ UNCHANGED <<lintRest, lintTotals, pc, fileIdx, ext, code, parseCalls,
                   hookLog, issues, emitVars>>

\* The arrays a lintOnResult hook returns: everything filtered out, or the
\* list with an issue of its own (named after the plugin) added.
ReturnedArrays(list, p) == {<<>>, Append(list, LintPlugins[p])}

\* plugin.lintOnResult?.(filePath, issues) returns undefined or an array,
\* or throws.
LintOnResult ==
    /\ pc = "lintOnResult"
    /\ pluginIdx <= Len(LintPlugins)
    /\ shouldRunLintPluginForFile(lintExtensions[pluginIdx], ext)
    /\ \E outcome \in {"undefined", "array", "throw"} :
       \E result \in IF outcome = "array"
                     THEN ReturnedArrays(issues, pluginIdx) ELSE {<<>>} :
        /\ hookLog' = Append(hookLog, Invocation("lintOnResult", pluginIdx,
                                     LintFile, issues, outcome, result))
        /\ issues' = PipeIssues(issues, outcome, result)
        /\ IF outcome = "throw"
           THEN /\ Len(errorEvents) < MaxThrows
                /\ HookThrew(HookError("lintOnResult", pluginIdx, LintFile))
           ELSE /\ pluginIdx' = pluginIdx + 1
                /\ UNCHANGED <<pc, emitVars>>
    /\ UNCHANGED <<lintRest, lintTotals, fileIdx, ext, code, parseCalls>>

\* Variant: a file is recorded whatever its issue list.
RecordsFileAlways(list) == TRUE

\* if (allIssues.length > 0)
RecordsFile(list) == Len(list) > 0

\* issuesByFile.set(file, allIssues)
SetIssues(map, file, list) ==
    [f \in DOMAIN map \cup {file} |-> IF f = file THEN list ELSE map[f]]

\* runLintOnResultPipeline returns: the file's issues are counted and
\* recorded, and the loop goes to the next file (the locals of the
\* iteration are gone).
LintOnResultDone ==
    /\ pc = "lintOnResult"
    /\ pluginIdx > Len(LintPlugins)
    /\ IF RecordsFile(issues)
       THEN /\ totalIssues' = totalIssues + Len(issues)
            /\ issuesByFile' = SetIssues(issuesByFile, LintFile, issues)
       ELSE UNCHANGED <<totalIssues, issuesByFile>>
    /\ fileIdx' = fileIdx + 1
    /\ pc' = "lintRead"
    /\ ext' = NoExt
    /\ code' = <<>>
    /\ hookLog' = <<>>
    /\ issues' = <<>>
    /\ parseCalls' = 0
    /\ pluginIdx' = 1
    /\ UNCHANGED <<lintRest, parsedFiles, skippedFiles, filesRead, setupCalls,
                   retval, doneEvents, emitVars>>

\* Variant: success is reported whatever was found.
LintDataAlwaysSuccess(total, byFile) ==
    [kind |-> "lint", success |-> TRUE, count |-> total, files |-> byFile]

\* The data run resolves with.
LintData(total, byFile) ==
    [kind |-> "lint", success |-> total = 0, count |-> total,
     files |-> byFile]

\* The file loop is over: 'done' is emitted and run resolves.
LintFinish ==
    /\ pc = "lintRead"
    /\ fileIdx > Len(LintFiles)
    /\ retval' = LintData(totalIssues, issuesByFile)
    /\ doneEvents' = Append(doneEvents, retval')
    /\ lastEmitted' = "done"
    /\ pc' = "lintResolved"
    /\ UNCHANGED <<lintRest, fileIdx, ext, code, parseCalls, pluginIdx,
                   hookLog, issues, totalIssues, issuesByFile, parsedFiles,
                   skippedFiles, filesRead, setupCalls, errorEvents,
                   rejection>>

NextLint ==
    \/ LintStart
    \/ LintStartFails
    \/ LintSetup
    \/ LintSetupDone
    \/ LintRead
    \/ LintReadFails
    \/ LintOnLoadSkip
    \/ LintOnLoad
    \/ LintOnLoadDone
    \/ LintParseOk
    \/ LintParseRetry
    \/ LintParseFails
    \/ LintOnResultSkip
    \/ LintOnResult
    \/ LintOnResultDone
    \/ LintFinish

SpecLint == InitLint /\ [][NextLint]_vars

(* ------------- SpecInterp: lintInterpolationParams --------------------- *)
\* The elements of a list.
Range(seq) == {seq[i] : i \in 1..Len(seq)}

\* A string is a sequence of tokens: "{{" and "}}" are the interpolation
\* prefix and suffix, "." the dot, " " white space; the word tokens match
\* \w+, every other token is plain text.
WordTokens == {"name", "user", "greeting", "count", "extra", "defaultValue",
               "defaultValue_", "one"}
NameTokens == WordTokens \cup {"."}

HiName == <<"Hi ", "{{", "name", "}}">>
HiTwice == <<"{{", "name", "}}", ", ", "{{", " ", "name", " ", "}}">>
UserGreeting == <<"user", ".", "greeting">>
Bye == <<"Bye ", "{{", "}}">>
HelloUser == <<"Hello ", "{{", "user", ".", "name", "}}">>
HiCount == <<"Hi ", "{{", "count", "}}">>

\* \s* of the key pattern
RECURSIVE SkipSpaces(_, _)
SkipSpaces(str, i) ==
    IF i <= Len(str) /\ str[i] = " " THEN SkipSpaces(str, i + 1) ELSE i

\* ([\w.-]+) of the key pattern
RECURSIVE NameEnd(_, _)
NameEnd(str, i) ==
    IF i <= Len(str) /\ str[i] \in NameTokens THEN NameEnd(str, i + 1) ELSE i

\* while ((match = regex.exec(str))) keys.push(match[1])
RECURSIVE MatchesFrom(_, _)
MatchesFrom(str, i) ==
    IF i > Len(str) THEN <<>>
    ELSE IF str[i] # "{{" THEN MatchesFrom(str, i + 1)
    ELSE LET a == SkipSpaces(str, i + 1)
             b == NameEnd(str, a)
             c == SkipSpaces(str, b)
         IN  IF b > a /\ c <= Len(str) /\ str[c] = "}}"
             THEN <<SubSeq(str, a, b - 1)>> \o MatchesFrom(str, c + 1)
             ELSE MatchesFrom(str, i + 1)

extractInterpolationKeys(str) == MatchesFrom(str, 1)

\* k.split('.')[0]
RECURSIVE firstSegment(_)
firstSegment(k) ==
    IF k = <<>> \/ Head(k) = "." THEN <<>>
    ELSE <<Head(k)>> \o firstSegment(Tail(k))

includes(list, x) == \E i \in DOMAIN list : list[i] = x

i18nextOptionKeys ==
    {<<w>> : w \in {"defaultValue", "count", "context", "ns", "lng", "lngs",
                    "fallbackLng", "returnDetails", "returnObjects",
                    "joinArrays", "postProcess", "interpolation",
                    "skipInterpolation", "replace", "ordinal",
                    "keySeparator", "nsSeparator", "tDescription"}}

\* Variant: only the listed option keys are known.
isI18nextOptionKeyListed(key) == key \in i18nextOptionKeys

isI18nextOptionKey(key) ==
    \/ key \in i18nextOptionKeys
    \/ key # <<>> /\ key[1] = "defaultValue_"

\* The nodes of a file, in source order: calls f(arg0, { params }) whose
\* first argument is a string literal or not, and other places where a
\* string literal stands (an attribute value, a constant).
CallExpression(callee, literal, value, params) ==
    [type |-> "CallExpression", callee |-> callee, literal |-> literal,
     value |-> value, params |-> params]
OtherLiteral(value) ==
    [type |-> "StringLiteral", callee |-> "", literal |-> TRUE,
     value |-> value, params |-> <<>>]

InterpNodes ==
    { CallExpression("t", TRUE, HiName, <<>>),
      CallExpression("t", TRUE, HiName, << <<"name">> >>),
      CallExpression("t", TRUE, HiName, << <<"user">>, <<"count">> >>),
      CallExpression("t", TRUE, UserGreeting, << <<"user">> >>),
      CallExpression("t", TRUE, UserGreeting,
                     << <<"extra">>, <<"defaultValue_", "one">> >>),
      CallExpression("t", TRUE, HiTwice, <<>>),
      CallExpression("t", TRUE, Bye, << <<"extra">> >>),
      CallExpression("t", FALSE, <<>>, << <<"name">> >>),
      CallExpression("log", TRUE, HiName, <<>>),
      OtherLiteral(UserGreeting) }

\* arg0.raw: the literal with its quotes
raw(value) == <<"'">> \o value \o <<"'">>

\* The source text of the file: one node per line.
NodeText(node) ==
    IF node.type = "CallExpression"
    THEN <<node.callee, "(">>
         \o (IF node.literal THEN raw(node.value) ELSE <<"key">>)
         \o <<")", "\n">>
    ELSE <<"=">> \o raw(node.value) \o <<"\n">>
RECURSIVE SourceText(_)
SourceText(nodes) ==
    IF nodes = <<>> THEN <<>>
    ELSE NodeText(Head(nodes)) \o SourceText(Tail(nodes))

\* code.indexOf(searchText, from), counted from 1; 0 when there is none
indexOf(text, pat, from) ==
    LET hits == {i \in from..(Len(text) - Len(pat) + 1) :
                    SubSeq(text, i, i + Len(pat) - 1) = pat}
    IN  IF hits = {} THEN 0 ELSE CHOOSE i \in hits : \A j \in hits : i <= j

\* code.substring(0, pos).split('\n').length
getLineNumber(text, pos) ==
    Cardinality({i \in 1..(pos - 1) : text[i] = "\n"}) + 1

\* config.extract.functions || ['t', '*.t']
fnPatterns == <<[wild |-> FALSE, name |-> "t"], [wild |-> TRUE, name |-> "t"]>>
matchesPattern(calleeName) ==
    \E i \in DOMAIN fnPatterns : calleeName = fnPatterns[i].name

\* The primary translation file: top-level entries that are strings or
\* objects of strings.
StringEntry(key, value) ==
    [key |-> key, isString |-> TRUE, value |-> value, children |-> <<>>]
ObjectEntry(key, children) ==
    [key |-> key, isString |-> FALSE, value |-> <<>>, children |-> children]
NoJson == <<>>
FlatJson ==
    <<StringEntry(UserGreeting, HelloUser), StringEntry(HiName, HiCount)>>
NestedJson ==
    <<ObjectEntry(<<"user">>,
                  <<[key |-> <<"greeting">>, value |-> HelloUser]>>),
      StringEntry(HiName, HiCount)>>

\* for (const [k, v] of Object.entries(json))
\*   if (typeof v === 'string') result.set(k, v)
loadPrimaryTranslationValues(json) ==
    LET strings == {i \in DOMAIN json : json[i].isString}
    IN  [k \in {json[i].key : i \in strings} |->
            json[CHOOSE i \in strings : json[i].key = k].value]

\* translationValues?.get(keyOrStr) ?? keyOrStr
resolve(translationValues, keyOrStr) ==
    IF keyOrStr \in DOMAIN translationValues
    THEN translationValues[keyOrStr] ELSE keyOrStr

LintCfgs ==
    { [checkInterpolationParams |-> "undefined", json |-> NoJson],
      [checkInterpolationParams |-> "undefined", json |-> FlatJson],
      [checkInterpolationParams |-> "true", json |-> NestedJson],
      [checkInterpolationParams |-> "false", json |-> FlatJson] }

\* config.lint?.checkInterpolationParams !== false
enabled(config) == config.checkInterpolationParams # "false"

\* handleCallExpression: the call site of a matched call whose first
\* argument is a string literal, or nothing.
handleCallExpression(node, translationValues) ==
    IF /\ node.type = "CallExpression"
       /\ matchesPattern(node.callee)
       /\ node.literal
    THEN <<[translationStr |-> resolve(translationValues, node.value),
            searchText |-> raw(node.value),
            paramKeys |-> node.params]>>
    ELSE <<>>

\* walk(ast, [])
RECURSIVE walk(_, _)
walk(nodes, translationValues) ==
    IF nodes = <<>> THEN <<>>
    ELSE handleCallExpression(Head(nodes), translationValues)
         \o walk(Tail(nodes), translationValues)

Issue(text, param, line) ==
    [type |-> "interpolation", text |-> text, param |-> param, line |-> line]

\* The issues of one call site: the keys that were not provided, then the
\* parameters that are not used.
RECURSIVE NotProvided(_, _, _)
NotProvided(keys, paramKeys, line) ==
    IF keys = <<>> THEN <<>>
    ELSE (IF /\ ~includes(paramKeys, Head(keys))
             /\ ~includes(paramKeys, firstSegment(Head(keys)))
          THEN <<Issue("was not provided", Head(keys), line)>> ELSE <<>>)
         \o NotProvided(Tail(keys), paramKeys, line)
RECURSIVE NotUsed(_, _, _)
NotUsed(paramKeys, keys, line) ==
    IF paramKeys = <<>> THEN <<>>
    ELSE LET pk == Head(paramKeys)
             isUsed == \E i \in DOMAIN keys :
                          keys[i] = pk \/ firstSegment(keys[i]) = pk
         IN  (IF ~isI18nextOptionKey(pk) /\ ~isUsed
              THEN <<Issue("is not used", pk, line)>> ELSE <<>>)
             \o NotUsed(Tail(paramKeys), keys, line)
SiteIssues(site, line) ==
    LET keys == extractInterpolationKeys(site.translationStr)
    IN  IF Len(keys) > 0
        THEN NotProvided(keys, site.paramKeys, line)
             \o NotUsed(site.paramKeys, keys, line)
        ELSE <<>>

\* Everything but the rule's own state is at rest.
HostIdle ==
    /\ cfgValid = TRUE
    /\ isDryRun = FALSE
    /\ extractFromComments = FALSE
    /\ fileList = Identity
    /\ fpc = "idle"
    /\ ext = ""
    /\ code = <<>>
    /\ pluginIdx = 1
    /\ parseCalls = 0
    /\ warnedPlugins = {}
    /\ onLoadLog = <<>>
    /\ adds = 0
    /\ filesRead = {}
    /\ traversed = {}
    /\ skipWarned = {}
    /\ allKeys = {}
    /\ contributors = {}
    /\ fileErrors = <<>>
    /\ results = <<>>
    /\ writeIdx = 1
    /\ anyFileUpdated = FALSE
    /\ disk = [p \in Paths |-> NoFile]
    /\ written = {}
    /\ mkdirs = {}
    /\ afterSyncCalls = <<>>
    /\ spinner = <<>>
    /\ retval = NoRet
    /\ sources = <<>>
    /\ ScopeIdle
    /\ LintIdle

hostVars == <<baseCfg, scopeVars, lintVars, fileLocals, outVars, fpc,
              filesRead, traversed, skipWarned, allKeys, contributors,
              fileErrors>>

InitInterp ==
    /\ entry = "lintInterpolationParams"
    /\ HostIdle
    /\ pc = "interpStart"
    /\ fileIdx = 1
    /\ ast \in UNION {[1..n -> InterpNodes] : n \in 1..MaxNodes}
    /\ lintCfg \in LintCfgs
    /\ callSites = <<>>
    /\ lastSearchIndex = 0
    /\ ruleIssues = <<>>

\* checkInterpolationParams is false: the rule returns no issue.
InterpDisabled ==
    /\ pc = "interpStart"
    /\ ~enabled(lintCfg)
    /\ pc' = "interpReturned"
    /\ UNCHANGED <<hostVars, fileIdx, ruleVars>>

\* walk(ast, []) collects the call sites.
InterpWalk ==
    /\ pc = "interpStart"
    /\ enabled(lintCfg)
    /\ callSites' = walk(ast, loadPrimaryTranslationValues(lintCfg.json))
    /\ lastSearchIndex' = 1
    /\ fileIdx' = 1
    /\ pc' = "interpSites"
    /\ UNCHANGED <<hostVars, ast, lintCfg, ruleIssues>>

\* One turn of the loop over callSites.
InterpSite ==
    /\ pc = "interpSites"
    /\ fileIdx <= Len(callSites)
    /\ LET site == callSites[fileIdx]
           text == SourceText(ast)
           position == indexOf(text, site.searchText, lastSearchIndex)
       IN  IF position = 0
           THEN UNCHANGED <<lastSearchIndex, ruleIssues>>
           ELSE /\ lastSearchIndex' = position + Len(site.searchText)
                /\ ruleIssues' =
                      ruleIssues
                      \o SiteIssues(site, getLineNumber(text, position))
    /\ fileIdx' = fileIdx + 1
    /\ UNCHANGED <<hostVars, pc, ast, lintCfg, callSites>>

\* return issues
InterpReturn ==
    /\ pc = "interpSites"
    /\ fileIdx > Len(callSites)
    /\ pc' = "interpReturned"
    /\ UNCHANGED <<hostVars, fileIdx, ruleVars>>

NextInterp ==
    \/ InterpDisabled
    \/ InterpWalk
    \/ InterpSite
    \/ InterpReturn

SpecInterp == InitInterp /\ [][NextInterp]_vars

(* ---------------- SpecHard: findHardcodedStrings ----------------------- *)
\* Names and texts are sequences of characters.
TagP == <<"p">>
TagTrans == <<"T", "r", "a", "n", "s">>
TagStyle == <<"S", "t", "y", "l", "e">>
TagCode == <<"c", "o", "d", "e">>
TagText == <<"T", "e", "x", "t">>
Tags == {TagP, TagTrans, TagStyle, TagCode, TagText}

AttrTitle == <<"t", "i", "T", "l", "e">>
AttrClassName == <<"c", "l", "a", "s", "s", "N", "a", "m", "e">>
HiText == <<" ", "H", "i", "!", " ">>
NumberText == <<"4", "2">>

\* recommendedAcceptedTags, recommendedAcceptedAttributes,
\* defaultIgnoredAttributes and defaultIgnoredTags, as far as the names
\* above go.
recommendedAcceptedTags == <<<<"p">>, <<"c", "o", "d", "e">>>>
recommendedAcceptedAttributes == <<<<"t", "i", "t", "l", "e">>>>
defaultIgnoredAttributes == <<<<"c", "l", "a", "s", "s", "n", "a", "m", "e">>>>
defaultIgnoredTags ==
    <<<<"s", "c", "r", "i", "p", "t">>, <<"s", "t", "y", "l", "e">>,
      <<"c", "o", "d", "e">>>>

\* An option that was not configured, or the configured list.
NotSet == [given |-> FALSE, list |-> <<>>]
Given(list) == [given |-> TRUE, list |-> list]

HardCfgs ==
    [transComponents : {NotSet},
     ignoredTags : {NotSet, Given(<<TagText>>)},
     acceptedTags : {NotSet, Given(<<>>),
                     Given(<<TagP, TagText, TagTrans, TagStyle>>)}]

\* list.map(s => s.toLowerCase())
lowerAll(list) == [i \in DOMAIN list |-> toLowerCase(list[i])]

transComponents(config) ==
    lowerAll(IF config.transComponents.given
             THEN config.transComponents.list ELSE <<TagTrans>>)
customIgnoredTags(config) ==
    lowerAll(IF config.ignoredTags.given
             THEN config.ignoredTags.list ELSE <<>>)
allIgnoredTags(config) ==
    Range(transComponents(config)) \cup Range(lowerAll(defaultIgnoredTags))
        \cup Range(customIgnoredTags(config))
acceptedTagsList(config) ==
    lowerAll(IF config.acceptedTags.given
             THEN config.acceptedTags.list ELSE recommendedAcceptedTags)
\* acceptedTagsSet is null for an empty list.
hasAcceptedTagsSet(config) == Len(acceptedTagsList(config)) > 0
acceptedTagsSet(config) == Range(acceptedTagsList(config))
acceptedAttributesSet == Range(lowerAll(recommendedAcceptedAttributes))
ignoredAttributes == Range(defaultIgnoredAttributes)

\* The nodes on the way from the root of the file to a leaf.
JSXNode(type, name, value) == [type |-> type, name |-> name, value |-> value]
JSXElement(name) == JSXNode("JSXElement", name, <<>>)
JSXOpeningElement(name) == JSXNode("JSXOpeningElement", name, <<>>)
JSXAttribute(name) == JSXNode("JSXAttribute", name, <<>>)
JSXExpressionContainer == JSXNode("JSXExpressionContainer", <<>>, <<>>)
JSXText(value) == JSXNode("JSXText", <<>>, value)
StringLiteral(value) == JSXNode("StringLiteral", <<>>, value)

Chains == UNION {[1..n -> Tags] : n \in 0..MaxDepth}
Elements(chain) == [i \in DOMAIN chain |-> JSXElement(chain[i])]
HardPaths ==
    {Elements(c) \o <<JSXText(v)>> : c \in Chains, v \in {HiText, NumberText}}
    \cup
    {Elements(c) \o <<JSXOpeningElement(c[Len(c)]), JSXAttribute(a),
                      StringLiteral(HiText)>> :
        c \in Chains \ {<<>>}, a \in {AttrTitle, AttrClassName}}
    \cup
    {Elements(c) \o <<JSXExpressionContainer, StringLiteral(HiText)>> :
        c \in Chains}

isElement(an) ==
    an.type \in {"JSXElement", "JSXOpeningElement", "JSXSelfClosingElement"}

\* The last element of the ancestors, 0 when there is none.
nearestElement(ancestors) ==
    LET els == {i \in DOMAIN ancestors : isElement(ancestors[i])}
    IN  IF els = {} THEN 0 ELSE CHOOSE i \in els : \A j \in els : j <= i

\* Variant: only the nearest enclosing element decides.
isWithinIgnoredElementNearest(ancestors, config) ==
    LET n == nearestElement(ancestors)
    IN  IF n = 0 THEN hasAcceptedTagsSet(config)
        ELSE \/ toLowerCase(ancestors[n].name) \in allIgnoredTags(config)
             \/ /\ hasAcceptedTagsSet(config)
                /\ toLowerCase(ancestors[n].name)
                      \notin acceptedTagsSet(config)

isWithinIgnoredElement(ancestors, config) ==
    IF \E i \in DOMAIN ancestors :
          /\ isElement(ancestors[i])
          /\ toLowerCase(ancestors[i].name) \in allIgnoredTags(config)
    THEN TRUE
    ELSE IF hasAcceptedTagsSet(config)
    THEN LET n == nearestElement(ancestors)
         IN  IF n = 0 THEN TRUE
             ELSE toLowerCase(ancestors[n].name)
                     \notin acceptedTagsSet(config)
    ELSE FALSE

Digits == {"0", "1", "2", "3", "4", "5", "6", "7", "8", "9"}
\* isNaN(Number(text)) for a trimmed, non-empty text
isNaNNumber(text) == \E i \in DOMAIN text : text[i] \notin Digits
isEllipsis(text) == text = <<".", ".", ".">>
\* /^(https|http|\/\/|^\/)/.test(text)
isUrlOrPath(text) ==
    \/ Len(text) >= 1 /\ text[1] = "/"
    \/ Len(text) >= 4 /\ SubSeq(text, 1, 4) = <<"h", "t", "t", "p">>

\* Whether walk pushes the JSXText at the end of the ancestors.
lintsText(ancestors, config) ==
    LET node == ancestors[Len(ancestors)]
        text == trim(node.value)
    IN  /\ hasAcceptedTagsSet(config)
        /\ ~isWithinIgnoredElement(ancestors, config)
        /\ Len(text) > 1
        /\ ~isEllipsis(text)
        /\ ~isUrlOrPath(text)
        /\ isNaNNumber(text)
        /\ ~(text[1] = "{" /\ text[2] = "{")

\* Whether walk pushes the StringLiteral at the end of the ancestors.
lintsAttribute(ancestors, config) ==
    LET node == ancestors[Len(ancestors)]
        parent == ancestors[Len(ancestors) - 1]
        outer == SubSeq(ancestors, 1, Len(ancestors) - 2)
        parentElement == nearestElement(outer)
        text == trim(node.value)
    IN  /\ Len(ancestors) >= 2
        /\ parent.type = "JSXAttribute"
        /\ ~isWithinIgnoredElement(ancestors, config)
        /\ hasAcceptedTagsSet(config) =>
              /\ parentElement # 0
              /\ toLowerCase(outer[parentElement].name)
                    \in acceptedTagsSet(config)
        /\ toLowerCase(parent.name) \in acceptedAttributesSet
        /\ Len(text) > 0
        /\ ~isEllipsis(text)
        /\ ~isUrlOrPath(text)
        /\ isNaNNumber(text)

\* node.raw ?? node.value
rawOf(node) ==
    IF node.type = "StringLiteral"
    THEN <<"'">> \o node.value \o <<"'">> ELSE node.value

\* The source text: an element opens a line, the leaf stands on the last.
RECURSIVE PathText(_)
PathText(nodes) ==
    IF nodes = <<>> THEN <<>>
    ELSE LET n == Head(nodes)
         IN  (CASE n.type = "JSXElement" -> <<"<">> \o n.name \o <<"\n">>
                [] n.type = "JSXAttribute" -> n.name \o <<"=">>
                [] n.type \in {"JSXText", "StringLiteral"} -> rawOf(n)
                [] OTHER -> <<>>)
             \o PathText(Tail(nodes))

InitHard ==
    /\ entry = "findHardcodedStrings"
    /\ HostIdle
    /\ pc = "hardWalk"
    /\ fileIdx = 1
    /\ ast \in HardPaths
    /\ lintCfg \in HardCfgs
    /\ callSites = <<>>
    /\ lastSearchIndex = 0
    /\ ruleIssues = <<>>

\* Phase 1 reaches the leaf and collects it.
HardCollect ==
    /\ pc = "hardWalk"
    /\ LET node == ast[Len(ast)]
       IN  \/ node.type = "JSXText" /\ lintsText(ast, lintCfg)
           \/ node.type = "StringLiteral" /\ lintsAttribute(ast, lintCfg)
    /\ callSites' = <<ast[Len(ast)]>>
    /\ lastSearchIndex' = 1
    /\ pc' = "hardLines"
    /\ UNCHANGED <<hostVars, fileIdx, ast, lintCfg, ruleIssues>>

\* Phase 1 reaches the leaf and leaves it out.
HardSkip ==
    /\ pc = "hardWalk"
    /\ LET node == ast[Len(ast)]
       IN  /\ node.type = "JSXText" => ~lintsText(ast, lintCfg)
           /\ node.type = "StringLiteral" => ~lintsAttribute(ast, lintCfg)
    /\ lastSearchIndex' = 1
    /\ pc' = "hardLines"
    /\ UNCHANGED <<hostVars, fileIdx, ast, lintCfg, callSites, ruleIssues>>

\* Phase 2: one turn of the loop over nodesToLint.
HardLine ==
    /\ pc = "hardLines"
    /\ fileIdx <= Len(callSites)
    /\ LET node == callSites[fileIdx]
           text == PathText(ast)
           position == indexOf(text, rawOf(node), lastSearchIndex)
       IN  IF position > 0
           THEN /\ ruleIssues' =
                      Append(ruleIssues,
                             [text |-> trim(node.value),
                              line |-> getLineNumber(text, position)])
                /\ lastSearchIndex' = position + Len(rawOf(node))
           ELSE UNCHANGED <<ruleIssues, lastSearchIndex>>
    /\ fileIdx' = fileIdx + 1
    /\ UNCHANGED <<hostVars, pc, ast, lintCfg, callSites>>

\* return issues
HardReturn ==
    /\ pc = "hardLines"
    /\ fileIdx > Len(callSites)
    /\ pc' = "hardReturned"
    /\ UNCHANGED <<hostVars, fileIdx, ruleVars>>

NextHard ==
    \/ HardCollect
    \/ HardSkip
    \/ HardLine
    \/ HardReturn

SpecHard == InitHard /\ [][NextHard]_vars

(* ============================== claims ================================= *)
Count(seq, x) == Cardinality({i \in 1..Len(seq) : seq[i] = x})
Processed == {fileList[i] : i \in 1..(fileIdx - 1)}
WriteLoopOver == entry = "runExtractor" /\ pc \in {"afterSync", "funnel", "resolved"}
AnyUpdated(rs) == \E i \in 1..Len(rs) : rs[i].updated

\* The results of a second run over unchanged sources (the collector is
\* rebuilt to the same key map) and the disk as it is now.
SecondRun == getTranslations(allKeys, disk)

\* C1: Idempotence. After a run outside dry-run has finished its write loop,
\* a second run over unchanged sources and the files the first run left on
\* disk has updated = false in every result, writes no file and has
\* anyFileUpdated = false.
C1_Idempotence ==
    (WriteLoopOver /\ ~isDryRun) =>
        /\ \A i \in 1..Len(SecondRun) :
              /\ ~SecondRun[i].updated
              /\ ~ShouldWrite(SecondRun[i], FALSE)
        /\ ~AnyUpdated(SecondRun)

C1_Witness ==
    /\ WriteLoopOver
    /\ ~isDryRun
    /\ pc = "resolved"
    /\ Cardinality(written) = 2
    /\ allKeys # {}

\* C2: Order independence. Whatever the order of the input file list, the
\* collected key map and the output trees are those of the list in its
\* canonical order.
C2_OrderIndependence ==
    pc = "merged" =>
        /\ allKeys = CollectAll({}, Identity, sources)
        /\ results = getTranslations(CollectAll({}, Identity, sources), disk)

C4_SkippedFilesDoNotBlock ==
    /\ WriteLoopOver =>
          \A i \in 1..Len(results) :
             /\ results[i].newTranslations =
                   DesiredTree(Locales[i], allKeys,
                               results[i].existingTranslations)
             /\ (results[i].updated /\ ~isDryRun) =>
                   /\ results[i].path \in written
                   /\ disk[results[i].path] =
                         serializeTranslationFile(results[i].newTranslations)
    /\ (pc = "resolved" /\ entry = "runExtractor") =>
          /\ retval.hasErrors = (fileErrors # <<>>)
          /\ retval.anyFileUpdated = AnyUpdated(results)

C4_Witness ==
    /\ pc = "resolved"
    /\ entry = "runExtractor"
    /\ Len(fileErrors) = 1
    /\ retval.hasErrors
    /\ retval.anyFileUpdated
    /\ written # {}

\* C5: A file recorded in fileErrors contributes no key to the collected
\* key map.
C5_SkippedFilesContributeNothing ==
    \A f \in Range(fileErrors) : f \notin contributors

\* C6: When an onLoad hook throws, a warning is logged, the code stays as it
\* was before that invocation, the loop moves on to the next plugin and the
\* file is not recorded in fileErrors by that step; the file is parsed with
\* that code afterwards.
C6_OnLoadFailureIsolated ==
    [][(fpc = "onLoad" /\ pluginIdx <= NumPlugins) =>
          /\ fpc' = "onLoad"
          /\ pluginIdx' = pluginIdx + 1
          /\ fileErrors' = fileErrors
          /\ skipWarned' = skipWarned
          /\ Len(onLoadLog') = pluginIdx
          /\ (onLoadLog'[pluginIdx] = "throw") =>
                /\ code' = code
                /\ warnedPlugins' = warnedPlugins \cup {pluginIdx}]_vars

C6_Witness ==
    /\ fpc = "visit"
    /\ onLoadLog = <<"string", "throw">>
    /\ warnedPlugins = {2}
    /\ code = <<1>>
    /\ parseCalls = 1
    /\ CurFile \notin Range(fileErrors)

\* C7: A plugin hook that throws does not make runExtractor reject and does
\* not keep the remaining plugins' hooks from being invoked.
C7_HookFailuresIsolated ==
    /\ pc = "rejected" => afterSyncCalls = <<>>
    /\ (pc \in {"funnel", "resolved", "rejected"} /\ afterSyncCalls # <<>>)
          => Len(afterSyncCalls) = NumPlugins

\* C8: Dry run. With isDryRun no directory is created, no file is written
\* and the disk stays as the results found it.
C8_DryRunWritesNothing ==
    isDryRun =>
        /\ written = {}
        /\ mkdirs = {}
        /\ \A i \in 1..Len(results) :
              loadTranslationFile(disk[results[i].path])
                 = results[i].existingTranslations

C8_Witness ==
    /\ isDryRun
    /\ pc = "resolved"
    /\ \A i \in 1..Len(results) : results[i].updated
    /\ Len(results) = 2

\* C9: Outside dry-run a result's file is written (and its directory
\* created) if and only if the result is updated; anyFileUpdated is true if
\* and only if some result is updated, in dry-run and in normal mode.
C9_WriteIffUpdated ==
    /\ (entry = "runExtractor" /\ ~isDryRun) =>
          \A i \in 1..Len(results) :
             /\ results[i].path \in written
                   <=> (i < writeIdx /\ results[i].updated)
             /\ dirname(results[i].path) \in mkdirs
                   <=> (i < writeIdx /\ results[i].updated)
    /\ WriteLoopOver => (anyFileUpdated <=> AnyUpdated(results))
    /\ (pc = "resolved" /\ entry = "runExtractor") =>
          (retval.anyFileUpdated <=> AnyUpdated(results))

C9_Witness ==
    /\ pc = "resolved"
    /\ entry = "runExtractor"
    /\ ~isDryRun
    /\ results[1].updated
    /\ ~results[2].updated
    /\ written = {results[1].path}

\* C10: A configuration error is fatal for both entry points: with an
\* invalid configuration no source file is read and no translation file is
\* written, the call fails at once.
C10_ConfigErrorFatal ==
    ~cfgValid =>
        /\ filesRead = {}
        /\ written = {}
        /\ pc # "resolved"

C13_AfterSyncForEveryPlugin ==
    /\ afterSyncCalls # <<>> =>
          /\ writeIdx > Len(results)
          /\ Len(results) = Len(Locales)
          /\ \A i \in 1..Len(afterSyncCalls) : afterSyncCalls[i] = i
    /\ (entry = "runExtractor" /\ results # <<>> /\ writeIdx > Len(results)
          /\ pc \in {"funnel", "resolved", "rejected"})
          => afterSyncCalls = [i \in 1..NumPlugins |-> i]

\* The value of a JavaScript condition on the resolved value: an object is
\* always truthy.
IsBoolean(v) == v.kind = "boolean"
Truthy(v) == IF IsBoolean(v) THEN v.value ELSE TRUE

\* C14: runExtractor resolves to a boolean that is true exactly when at
\* least one translation file was updated.
C14_ResolvesToBoolean ==
    (pc = "resolved" /\ entry = "runExtractor") =>
        /\ IsBoolean(retval)
        /\ Truthy(retval) <=> AnyUpdated(results)

IsLoad(e) == e.hook = "lintOnLoad"
IsParse(e) == e.hook = "parse"
IsResult(e) == e.hook = "lintOnResult"
Loads == SelectSeq(hookLog, IsLoad)
Parses == SelectSeq(hookLog, IsParse)
Results == SelectSeq(hookLog, IsResult)
Last(seq) == seq[Len(seq)]

\* C16: When a lintOnLoad returns null for a file the file is skipped
\* entirely: that invocation is the last thing done for the file (no later
\* lintOnLoad, no parse, no lintOnResult), and the file adds no issue and
\* gets no entry in the files map of the result.
C16_NullSkipsFile ==
    /\ [](\A i \in 1..Len(hookLog) :
            hookLog[i].outcome = "null" =>
                /\ i = Len(hookLog)
                /\ pc \in {"lintRead", "lintResolved", "lintRejected"}
                /\ hookLog[i].file \in skippedFiles)
    /\ [](/\ skippedFiles \cap parsedFiles = {}
          /\ skippedFiles \cap DOMAIN issuesByFile = {}
          /\ pc = "lintResolved" => skippedFiles \cap DOMAIN retval.files = {}
          /\ pc \in {"lintParse", "lintRetry", "lintOnResult"}
                => LintFile \notin skippedFiles)
    /\ [][skippedFiles' # skippedFiles =>
            /\ hookLog' # <<>> /\ Last(hookLog').outcome = "null"
            /\ totalIssues' = totalIssues
            /\ issuesByFile' = issuesByFile]_vars

\* The first plugin returned null for App.ts; Makefile was linted and has
\* issues.
C16_Witness ==
    /\ pc = "lintResolved"
    /\ skippedFiles = {"App.ts"}
    /\ DOMAIN retval.files = {"Makefile"}

\* The gate as the documentation of lintExtensions has it: no hints (absent,
\* empty or only blank entries), or a hint that equals the extension after
\* normalisation.
IsBlank(str) == \A i \in 1..Len(str) : str[i] = " "
NoLintExtensions(le) ==
    ~le.present \/ \A i \in 1..Len(le.hints) : IsBlank(le.hints[i])
ClaimedGate(le, e) ==
    \/ NoLintExtensions(le)
    \/ /\ e # NoExt
       /\ \E i \in 1..Len(le.hints) :
             /\ ~IsBlank(le.hints[i])
             /\ normalizeExtension(le.hints[i]) = normalizeExtension(e)
Gated == {p \in DOMAIN LintPlugins : ClaimedGate(lintExtensions[p], ext)}

\* C17: The plugins whose lintOnLoad (and lintOnResult) was invoked for a
\* file are exactly those without lintExtensions (absent, empty or only
\* blank entries) or with a hint equal to the file's extension after
\* normalisation.
C17_ExtensionGate ==
    /\ pc = "lintParse" => {Loads[i].plugin : i \in 1..Len(Loads)} = Gated
    /\ (pc = "lintOnResult" /\ pluginIdx > Len(LintPlugins))
          => {Results[i].plugin : i \in 1..Len(Results)} = Gated

CodeAfter(e) == IF e.outcome = "string" THEN e.result ELSE e.input

\* C18: The lintOnLoad hooks of the applicable plugins run in plugin order;
\* the first receives the file content, each next one the code the previous
\* one left (its returned string, or its input when it returned undefined),
\* and what is parsed is the code the last hook left.
C18_LintOnLoadPipeline ==
    /\ \A i \in 1..Len(Loads) :
          /\ Loads[i].input = IF i = 1 THEN <<>> ELSE CodeAfter(Loads[i - 1])
          /\ i > 1 => Loads[i - 1].plugin < Loads[i].plugin
          /\ shouldRunLintPluginForFile(lintExtensions[Loads[i].plugin],
                                        extname(Loads[i].file))
    /\ \A i \in 1..Len(Parses) :
          /\ Parses[i].input =
                IF Loads = <<>> THEN <<>> ELSE CodeAfter(Last(Loads))
          /\ \A p \in DOMAIN LintPlugins :
                shouldRunLintPluginForFile(lintExtensions[p],
                                           extname(Parses[i].file))
                   => \E j \in 1..Len(Loads) : Loads[j].plugin = p

\* The first hook returned a string, the second undefined, and the code
\* that was parsed is the first hook's string.
C18_Witness ==
    /\ Len(hookLog) >= 3
    /\ IsLoad(hookLog[1]) /\ hookLog[1].outcome = "string"
    /\ IsLoad(hookLog[2]) /\ hookLog[2].outcome = "undefined"
    /\ IsParse(hookLog[3]) /\ hookLog[3].outcome = "ok"
    /\ hookLog[3].input = Transformed(<<>>, 1)

IssuesAfter(e) == IF e.outcome = "array" THEN e.result ELSE e.input

\* The issue list the lintOnResult pipeline of the current file ends with.
FinalIssues ==
    IF Results = <<>> THEN Last(Parses).result ELSE IssuesAfter(Last(Results))

RECURSIVE SumLen(_, _)
SumLen(map, S) ==
    IF S = {} THEN 0
    ELSE LET f == CHOOSE x \in S : TRUE
         IN  Len(map[f]) + SumLen(map, S \ {f})

\* C19: The lintOnResult hooks run in plugin order on the built-in issues;
\* a returned array replaces the list, undefined keeps it. The list the
\* pipeline ends with is what is counted and recorded for the file, and
\* only when it is not empty; success and the count of the result are
\* computed from the recorded lists.
C19_LintOnResultPipeline ==
    /\ [](\A i \in 1..Len(Results) :
            /\ Parses # <<>>
            /\ Results[i].input = IF i = 1 THEN Last(Parses).result
                                  ELSE IssuesAfter(Results[i - 1])
            /\ i > 1 => Results[i - 1].plugin < Results[i].plugin)
    /\ [][(pc = "lintOnResult" /\ pc' = "lintRead") =>
            IF FinalIssues # <<>>
            THEN /\ LintFile \in DOMAIN issuesByFile'
                 /\ issuesByFile'[LintFile] = FinalIssues
                 /\ totalIssues' = totalIssues + Len(FinalIssues)
            ELSE /\ LintFile \notin DOMAIN issuesByFile'
                 /\ totalIssues' = totalIssues]_vars
    /\ [](pc = "lintResolved" =>
            /\ retval.files = issuesByFile
            /\ \A f \in DOMAIN retval.files : retval.files[f] # <<>>
            /\ retval.count = SumLen(retval.files, DOMAIN retval.files)
            /\ retval.success <=> DOMAIN retval.files = {})

\* In the second file the built-in rules found an issue and a hook filtered
\* it out; the first file kept its issue and the one a hook added.
C19_Witness ==
    /\ pc = "lintOnResult"
    /\ pluginIdx > Len(LintPlugins)
    /\ fileIdx = 2
    /\ Last(Parses).result = <<"hardcoded">>
    /\ Results # <<>>
    /\ FinalIssues = <<>>
    /\ issuesByFile = SetIssues(NoIssues, "App.ts", <<"hardcoded", "second">>)

\* The 'error' events owed to the throwing invocations of a log.
Threw(e) == e.outcome = "throw"
RECURSIVE Wrapped(_)
Wrapped(log) ==
    IF log = <<>> THEN <<>>
    ELSE <<wrapError(HookError(Head(log).hook, Head(log).plugin,
                               Head(log).file))>> \o Wrapped(Tail(log))
SetupThrows ==
    [i \in 1..Len(SelectSeq(setupCalls, Threw)) |->
        wrapError(HookError("lintSetup",
                            SelectSeq(setupCalls, Threw)[i].plugin, ""))]
IsSetupError(e) == e.hook = "lintSetup"
Occurs(part, seq) ==
    \E k \in 0..(Len(seq) - Len(part)) :
        SubSeq(seq, k + 1, k + Len(part)) = part

C21_ParseFailureSkipsOneFile ==
    (hookLog # <<>> /\ IsParse(Last(hookLog)) /\ Threw(Last(hookLog))) =>
        /\ Occurs(Wrapped(<<Last(hookLog)>>), errorEvents)
        /\ Last(hookLog).file \notin parsedFiles
        /\ Last(hookLog).file \notin DOMAIN issuesByFile
        /\ fileIdx > Len(LintFiles) \/ LintFile # Last(hookLog).file

\* C24 as stated: a second attempt is made only for a file whose
\* extension is exactly .ts or .js.
C24_ExactExtension ==
    (fpc = "retry" \/ parseCalls = 2) => ext \in {".ts", ".js"}

\* C24, amended: A file is parsed at most twice. The second attempt is made
\* exactly when the first failed and the lower-cased extension is .ts or
\* .js; with any other extension the first failure skips the file. A file
\* whose retry succeeds goes on to the traversal and is not recorded in
\* fileErrors.
C24_ParseRetryRule ==
    [][/\ parseCalls' <= 2
       /\ (fpc' = "retry" \/ parseCalls' = 2)
             => ext' \in {".ts", ".TS", ".js"}
       /\ fpc' = "retry" => parseCalls' = 1
       /\ (fpc = "onLoad" /\ fpc' = "retry") => parseCalls = 0
       /\ (fpc = "onLoad" /\ skipWarned' # skipWarned)
             => (parseCalls = 0 /\ fpc' = "idle"
                 /\ fileIdx' = fileIdx + 1)
       /\ (fpc = "retry" /\ skipWarned' = skipWarned)
             => (fpc' = "visit" /\ parseCalls' = 2
                 /\ fileErrors' = fileErrors)
       /\ (fpc = "retry" /\ skipWarned' # skipWarned)
             => (fpc' = "idle" /\ fileIdx' = fileIdx + 1)
      ]_vars

\* A file named with .TS was parsed a second time and traversed; no file
\* is recorded in fileErrors.
C24_Witness ==
    /\ fpc = "comments"
    /\ parseCalls = 2
    /\ ext = ".TS"
    /\ CurFile \in traversed
    /\ fileErrors = <<>>

C30_ResultConsistency ==
    /\ totalIssues = SumLen(issuesByFile, DOMAIN issuesByFile)
    /\ \A f \in DOMAIN issuesByFile : Len(issuesByFile[f]) > 0
    /\ pc = "lintResolved" =>
          /\ retval.success = (DOMAIN retval.files = {})
          /\ \A f \in DOMAIN retval.files : Len(retval.files[f]) > 0
          /\ retval.count = SumLen(retval.files, DOMAIN retval.files)

\* Both files have issues, three in all.
C30_Witness ==
    /\ pc = "lintResolved"
    /\ DOMAIN retval.files = {"App.ts", "Makefile"}
    /\ retval.count = 3
    /\ ~retval.success

\* C29: A run that resolves has emitted 'done' once, after every file was
\* read and as its last event, with the object it resolves with. A run that
\* rejects has emitted no 'done' and rejects with an error whose message
\* carries the prefix 'Linter failed to run: ' once.
C29_DoneOnceOrRejection ==
    /\ Len(doneEvents) <= 1
    /\ doneEvents # <<>> => pc = "lintResolved"
    /\ pc = "lintResolved" =>
          /\ doneEvents = <<retval>>
          /\ lastEmitted = "done"
          /\ fileIdx > Len(LintFiles)
          /\ filesRead = Range(LintFiles)
          /\ rejection = NoError
    /\ pc = "lintRejected" =>
          /\ doneEvents = <<>>
          /\ lastEmitted = "error"
          /\ rejection.prefixes = 1
    /\ pc \notin {"lintResolved", "lintRejected"} => rejection = NoError

\* A run whose listener received an error and that skipped a file emitted
\* 'done' with its result.
C29_Witness ==
    /\ pc = "lintResolved"
    /\ errorEvents # <<>>
    /\ skippedFiles # {}
    /\ doneEvents = <<retval>>

\* The matched calls of the file whose first argument is a string literal.
MatchedCalls ==
    {i \in DOMAIN ast : /\ ast[i].type = "CallExpression"
                        /\ ast[i].callee = "t"
                        /\ ast[i].literal}
Occurrences(seq, x) == Cardinality({i \in DOMAIN seq : seq[i] = x})
RECURSIVE SumOver(_, _)
SumOver(f, set) ==
    IF set = {} THEN 0
    ELSE LET x == CHOOSE y \in set : TRUE
         IN  f[x] + SumOver(f, set \ {x})
KnownOptionKey(p) ==
    \/ p \in i18nextOptionKeys
    \/ p \in {<<"defaultValue_", w>> : w \in WordTokens}
KeysIn(site) == extractInterpolationKeys(site.translationStr)
Names ==
    UNION {Range(KeysIn(callSites[j])) \cup Range(callSites[j].paramKeys) :
              j \in DOMAIN callSites}
\* How often the claim has key k of call site j reported as not provided.
Missing(j, k) ==
    IF /\ k \notin Range(callSites[j].paramKeys)
       /\ firstSegment(k) \notin Range(callSites[j].paramKeys)
    THEN Occurrences(KeysIn(callSites[j]), k) ELSE 0
\* How often the claim has parameter p of call site j reported as not used.
Unused(j, p) ==
    IF /\ KeysIn(callSites[j]) # <<>>
       /\ ~KnownOptionKey(p)
       /\ \A k \in Range(KeysIn(callSites[j])) : k # p /\ firstSegment(k) # p
    THEN Occurrences(callSites[j].paramKeys, p) ELSE 0
Reported(text, x) ==
    Cardinality({i \in DOMAIN ruleIssues :
                    ruleIssues[i].text = text /\ ruleIssues[i].param = x})

RECURSIVE afterFirstDot(_)
afterFirstDot(k) ==
    IF k = <<>> THEN <<>>
    ELSE IF Head(k) = "." THEN Tail(k) ELSE afterFirstDot(Tail(k))

\* The strings the primary translation file holds for a key: a top-level
\* entry of that name, or the entry reached along the dot of the key.
StoredValues(json, key) ==
    {json[i].value :
        i \in {n \in DOMAIN json : json[n].isString /\ json[n].key = key}}
    \cup
    UNION {{json[i].children[c].value :
               c \in {m \in DOMAIN json[i].children :
                         json[i].children[m].key = afterFirstDot(key)}} :
           i \in {n \in DOMAIN json : /\ ~json[n].isString
                                      /\ json[n].key = firstSegment(key)}}

\* The call site of the matched call at node i.
SiteOf(i) == callSites[Cardinality({m \in MatchedCalls : m <= i})]

\* C26: Whenever the first argument of a matched call is a key the primary
\* translation file holds a string for, the interpolation keys are taken
\* from the stored string and not from the key text.
C26_ChecksTranslatedValue ==
    (pc \in {"interpSites", "interpReturned"}
        /\ lintCfg.checkInterpolationParams # "false") =>
        \A i \in MatchedCalls :
            StoredValues(lintCfg.json, ast[i].value) # {} =>
                SiteOf(i).translationStr
                    \in StoredValues(lintCfg.json, ast[i].value)

\* The same, for a translation file without nested objects.
C26_FlatFileOnly ==
    (\A n \in DOMAIN lintCfg.json : lintCfg.json[n].isString)
        => C26_ChecksTranslatedValue

\* The issues of the matched calls from node i on, each with the line of
\* its own call (one node per line).
RECURSIVE OwnLineIssues(_)
OwnLineIssues(i) ==
    IF i > Len(ast) THEN <<>>
    ELSE (IF i \in MatchedCalls THEN SiteIssues(SiteOf(i), i) ELSE <<>>)
         \o OwnLineIssues(i + 1)

\* C27: When several matched calls of a file have the same string literal
\* as first argument, the issues of each of them carry the line of that
\* call's own literal.
C27_OwnLineForDuplicates ==
    (/\ pc = "interpReturned"
     /\ lintCfg.checkInterpolationParams # "false"
     /\ \E i, j \in MatchedCalls : i # j /\ ast[i].value = ast[j].value)
        => ruleIssues = OwnLineIssues(1)

\* The same, for a file in which the literals of the matched calls stand
\* nowhere else.
C27_NoOtherOccurrence ==
    (\A i \in DOMAIN ast \ MatchedCalls :
        \A j \in MatchedCalls :
            ~ast[i].literal \/ ast[i].value # ast[j].value)
        => C27_OwnLineForDuplicates

\* The names the configuration has ignored: the Trans components, the
\* built-in ignored tags and the configured ignored tags, in lower case.
IgnoredNames ==
    {<<"t", "r", "a", "n", "s">>, <<"s", "c", "r", "i", "p", "t">>,
     <<"s", "t", "y", "l", "e">>, <<"c", "o", "d", "e">>}
    \cup (IF lintCfg.ignoredTags.given
          THEN {toLowerCase(lintCfg.ignoredTags.list[i]) :
                   i \in DOMAIN lintCfg.ignoredTags.list}
          ELSE {})
\* The effective accept-list, in lower case.
AcceptedNames ==
    IF lintCfg.acceptedTags.given
    THEN {toLowerCase(lintCfg.acceptedTags.list[i]) :
             i \in DOMAIN lintCfg.acceptedTags.list}
    ELSE {<<"p">>, <<"c", "o", "d", "e">>}
IgnoredAncestors ==
    {i \in DOMAIN ast : /\ isElement(ast[i])
                        /\ toLowerCase(ast[i].name) \in IgnoredNames}

\* C22: Text that stands directly in an element whose name is both in the
\* effective accept-list and among the ignored names (and in no other
\* ignored element) is reported.
C22_AcceptedWinsOverIgnored ==
    (/\ pc = "hardReturned"
     /\ Len(ast) >= 2
     /\ ast[Len(ast)] = JSXText(HiText)
     /\ toLowerCase(ast[Len(ast) - 1].name) \in AcceptedNames
     /\ IgnoredAncestors = {Len(ast) - 1})
        => ruleIssues = <<[text |-> <<"H", "i", "!">>, line |-> Len(ast)]>>

====
